---- MODULE Spec2Model ----
(***************************************************************************)
(* Verification model of the RTMP session engine of rtmpServerStudy:       *)
(*   - the publisher registry (RtmpSessionGet / RtmpSessionPush /          *)
(*     RtmpSessionDel over the 101 RW-locked shards), specification        *)
(*     SpecRegistry;                                                       *)
(*   - the chunk codec (fillChunk0Header / fillChunk3Header / readChunk).  *)
(* 32-bit unsigned values are kept at their width as pairs <<hi, lo>> of   *)
(* 16-bit halves, because TLC's integers are 32-bit signed.                *)
(***************************************************************************)
EXTENDS Integers, Sequences, FiniteSets, TLC

VARIABLES
    PublishingSessionMap,   \* [shard -> map path -> session]      (line 55)
    mutex,                  \* [shard -> RWMutex state]             (line 51)
    pc,                     \* position of every task in its registry call
    path,                   \* local `path` of the call a task is in
    ok,                     \* local `ok` of RtmpSessionPush (line 187)
    ret,                    \* value the call is about to return
    obs,                    \* observer: what the calls on each anchor returned
    bufr,                   \* bytes written to the connection and not yet read
    readcsmap,              \* Session.readcsmap: csid -> chunkStream
    readMaxChunkSize,       \* Session.readMaxChunkSize
    writeMaxChunkSize,      \* Session.writeMaxChunkSize (of the sending session)
    ackn,                   \* Session.ackn
    readAckSize,            \* Session.readAckSize
    last,                   \* observer: outcome of the last readChunk call
    asm,                    \* observer: per csid, chunks and wire bytes of the message in progress
    sent,                   \* observer: the message DoSend wrote last
    nread,                  \* observer: number of readChunk calls made
    nmsg,                   \* observer: number of chunks that began a message
    publishing,             \* Session.publishing
    playing,                \* Session.playing
    loop,                   \* the read cycle the session runs: "cmd" or "msg"
    loopret,                \* what the cycle returned, "running" until it does
    srvpc,                  \* rtmpServeStart: "accept", "returned" or "crashed"
    tempDelay,              \* rtmpServeStart: tempDelay at the end of an iteration, ms
    sess,                   \* the session tasks started by rtmpServeStart, in order
    slept,                  \* observer: how long the last time.Sleep was, ms
    streak,                 \* observer: transient Accept errors since the last success
    faults,                 \* observer: panics recovered so far
    proxyStage,             \* rtmpClientPullProxy: proxyStage
    isBreak,                \* rtmpClientPullProxy: isBreak
    stage,                  \* rtmpClientPullProxy: the parameter stage
    isClosed,               \* srcSession.isClosed
    perr,                   \* rtmpClientPullProxy: the named result err
    proxypc,                \* rtmpClientPullProxy: "running", "returned" or "crashed"
    plast,                  \* observer: stage and outcome of the last turn of the loop
    published,              \* observer: connectPublish succeeded on this connection
    nturns,                 \* observer: turns of the inner loop so far
    self,                   \* rtmpClientPullProxy: the self of line 651; 0 is nil
    inner,                  \* the session NewSesion made last at line 676; 0: none
    lpc,                    \* socketListen: position
    addr,                   \* socketListen: addr, a sequence of characters
    file,                   \* the file system entry at addr
    newmode,                \* permission bits a socket file is created with
    lis,                    \* socketListen: l
    lerr,                   \* socketListen: err, named after the call that failed
    found,                  \* observer: the file system entry when socketListen began
    dialed,                 \* observer: result of net.Dial("unix", addr)
    removed,                \* observer: os.Remove(addr) succeeded
    tasks,                  \* the rtmpServeStart and httpServerStart tasks of the server
    mainpc,                 \* ListenAndServersStart: "waiting" at <-self.done, or "returned"
    nalb,                   \* SplitNALUs: the argument b
    nalres,                 \* SplitNALUs: what the call did
    recordinfo,             \* the AVCDecoderConfRecord that was marshalled
    record,                 \* the bytes of a decoder configuration record
    mres,                   \* AVCDecoderConfRecord.Marshal: what the call did
    ures                    \* AVCDecoderConfRecord.Unmarshal: what the call did

regvars == <<PublishingSessionMap, mutex, pc, path, ok, ret, obs>>

chunkvars == <<bufr, readcsmap, readMaxChunkSize, writeMaxChunkSize, ackn,
               readAckSize, last, asm, sent, nread, nmsg>>

cmdvars == <<publishing, playing, loop, loopret>>

srvvars == <<srvpc, tempDelay, sess, slept, streak, faults>>

proxyvars == <<proxyStage, isBreak, stage, isClosed, perr, proxypc, plast,
               published, nturns, self, inner>>

listenvars == <<lpc, addr, file, newmode, lis, lerr, found, dialed, removed>>

donevars == <<tasks, mainpc>>

naluvars == <<nalb, nalres>>

confvars == <<recordinfo, record, mres, ures>>

restvars == <<donevars, naluvars, confvars>>

\* the variables outside the registry and the chunk codec
othervars == <<cmdvars, srvvars, proxyvars, listenvars, restvars>>

vars == <<PublishingSessionMap, mutex, pc, path, ok, ret, obs,
          bufr, readcsmap, readMaxChunkSize, writeMaxChunkSize, ackn,
          readAckSize, last, asm, sent, nread, nmsg,
          publishing, playing, loop, loopret,
          srvpc, tempDelay, sess, slept, streak, faults,
          proxyStage, isBreak, stage, isClosed, perr, proxypc, plast,
          published, nturns, self, inner,
          lpc, addr, file, newmode, lis, lerr, found, dialed, removed,
          tasks, mainpc, nalb, nalres, recordinfo, record, mres, ures>>

\* no read cycle is modelled
CmdIdle ==
    /\ publishing = FALSE
    /\ playing = FALSE
    /\ loop = "none"
    /\ loopret = "running"

\* no server is modelled
ServeIdle ==
    /\ srvpc = "none"
    /\ tempDelay = 0
    /\ sess = <<>>
    /\ slept = 0
    /\ streak = 0
    /\ faults = 0

\* no pull proxy is modelled
ProxyIdle ==
    /\ proxyStage = 0
    /\ isBreak = TRUE
    /\ stage = 0
    /\ isClosed = FALSE
    /\ perr = "nil"
    /\ proxypc = "none"
    /\ plast = [at |-> 0, outcome |-> "none", on |-> 0]
    /\ published = FALSE
    /\ nturns = 0
    /\ self = 0
    /\ inner = 0

\* nothing at the address
NoFile == [exists |-> FALSE, mode |-> 0, user |-> "none"]

\* socketListen is not called
ListenIdle ==
    /\ lpc = "none"
    /\ addr = <<>>
    /\ file = NoFile
    /\ newmode = 0
    /\ lis = "nil"
    /\ lerr = "nil"
    /\ found = NoFile
    /\ dialed = "none"
    /\ removed = FALSE

\* ListenAndServersStart is not called
DoneIdle ==
    /\ tasks = <<>>
    /\ mainpc = "none"

\* no call of SplitNALUs has been made
NoSplit == [called |-> FALSE, nalus |-> <<>>, typ |-> 0, panicked |-> FALSE]

\* SplitNALUs is not called
NaluIdle ==
    /\ nalb = <<>>
    /\ nalres = NoSplit

\* the zero value of AVCDecoderConfRecord (parse.go lines 608-616)
NoRecord ==
    [AVCProfileIndication |-> 0, ProfileCompatibility |-> <<0, 0>>,
     AVCLevelIndication |-> 0, LengthSizeMinusOne |-> 0,
     VPS |-> <<>>, SPS |-> <<>>, PPS |-> <<>>]

\* no call of Marshal has been made
NoMarshal == [called |-> FALSE, n |-> 0, panicked |-> FALSE]

\* no call of Unmarshal has been made
NoUnmarshal == [called |-> FALSE, out |-> "none", at |-> 0, n |-> 0, rec |-> NoRecord]

\* no decoder configuration record is built or read
ConfIdle ==
    /\ recordinfo = NoRecord
    /\ record = <<>>
    /\ mres = NoMarshal
    /\ ures = NoUnmarshal

RestIdle == DoneIdle /\ NaluIdle /\ ConfIdle

\* the parts outside the registry and the chunk codec do not take part
OtherIdle == CmdIdle /\ ServeIdle /\ ProxyIdle /\ ListenIdle /\ RestIdle

----------------------------------------------------------------------------
(* Bounds of the model.                                                    *)

\* messages begun on a connection in one behaviour
MaxMsgs == 2

\* longest message payload, in bytes
MaxLen == 3

\* connections accepted by the server in one behaviour
MaxConns == 3

\* consecutive transient Accept errors in one behaviour
MaxStreak == 9

\* turns of the inner loop of the pull proxy in one behaviour
MaxTurns == 6

\* listen addresses of a server, rtmp and http together
MaxAddrs == 3

\* length of the byte sequences given to SplitNALUs
MaxBytes == 8

\* NAL units in one parameter set list of a decoder configuration record
MaxNals == 2

\* length of the longer NAL units of a decoder configuration record
MaxNalLen == 17


----------------------------------------------------------------------------
(* 32-bit unsigned arithmetic on <<hi, lo>> pairs.                         *)

W16 == 256 * 256

U32(hi, lo) == <<hi, lo>>

Zero32 == <<0, 0>>

RECURSIVE Xor(_, _)
\* bitwise exclusive or of two naturals
Xor(a, b) ==
    IF a = 0 THEN b
    ELSE IF b = 0 THEN a
    ELSE (((a % 2) + (b % 2)) % 2) + 2 * Xor(a \div 2, b \div 2)

\* h * 16777619 (0x01000193) mod 2^32
MulPrime32(h) ==
    LET low == h[2] * 403
        high == h[1] * 403 + h[2] * 256 + (low \div W16)
    IN <<high % W16, low % W16>>

\* mutant: the sum stops at 0xFFFFFFFF instead of wrapping
Add32Saturate(a, b) ==
    LET low == a[2] + b[2]
        high == a[1] + b[1] + (low \div W16)
    IN IF high >= W16 THEN <<W16 - 1, W16 - 1>> ELSE <<high, low % W16>>

\* uint32 addition (wraps at 2^32)
Add32(a, b) ==
    LET low == a[2] + b[2]
        high == a[1] + b[1] + (low \div W16)
    IN <<high % W16, low % W16>>

\* uint32 a > b
Gt32(a, b) == a[1] > b[1] \/ (a[1] = b[1] /\ a[2] > b[2])

\* a natural below 2^31 as a uint32
ToU32(v) == <<v \div W16, v % W16>>

\* h mod m for a small modulus m
Mod32(h, m) == ((h[1] % m) * (W16 % m) + h[2]) % m

----------------------------------------------------------------------------
(* Chunk codec: byte order helpers (pio), on sequences of bytes 0..255.     *)

Drop(b, k) == SubSeq(b, k + 1, Len(b))

Take(b, k) == SubSeq(b, 1, k)

\* pio.U24BE(b[i:])
U24BE(b, i) == b[i] * 65536 + b[i + 1] * 256 + b[i + 2]

\* pio.U16BE(b[i:])
U16BE(b, i) == b[i] * 256 + b[i + 1]

\* pio.U32BE(b[i:])
U32BE(b, i) == <<b[i] * 256 + b[i + 1], b[i + 2] * 256 + b[i + 3]>>

\* pio.U32LE(b[i:])
U32LE(b, i) == <<b[i + 3] * 256 + b[i + 2], b[i + 1] * 256 + b[i]>>

\* pio.PutU24BE(b, v): the low 24 bits of the uint32 v
PutU24BE(v) == <<v[1] % 256, v[2] \div 256, v[2] % 256>>

\* pio.PutU32BE(b, v)
PutU32BE(v) == <<v[1] \div 256, v[1] % 256, v[2] \div 256, v[2] % 256>>

\* pio.PutU32LE(b, v)
PutU32LE(v) == <<v[2] % 256, v[2] \div 256, v[1] % 256, v[1] \div 256>>

\* timestamp >= 0xffffff, on a uint32
GeFFFFFF(v) == v[1] > 255 \/ (v[1] = 255 /\ v[2] = 65535)

\* k zero bytes: make([]byte, k)
Zeros(k) == [i \in 1 .. k |-> 0]

----------------------------------------------------------------------------
(* Chunk codec: the read side.                                             *)

\* var EXTTIME = true
EXTTIME == TRUE

\* &chunkStream{}: the zero value
NewChunkStream ==
    [timenow |-> Zero32, timedelta |-> Zero32, hastimeext |-> FALSE,
     msgsid |-> Zero32, msgtypeid |-> 0, msgdatalen |-> 0, msgdataleft |-> 0,
     msghdrtype |-> 0, msgdata |-> <<>>]

\* mutant: Start keeps a buffer that is already large enough
StartReuse(cs) ==
    [cs EXCEPT !.msgdataleft = cs.msgdatalen,
               !.msgdata = IF Len(cs.msgdata) >= cs.msgdatalen
                           THEN cs.msgdata ELSE Zeros(cs.msgdatalen)]

\* func (self *chunkStream) Start()
Start(cs) ==
    [cs EXCEPT !.msgdataleft = cs.msgdatalen, !.msgdata = Zeros(cs.msgdatalen)]

\* result of a step of readChunk that failed in io.ReadFull: the connection
\* ended before the bytes asked for arrived
Eof(cs) == [err |-> "EOF", n |-> 0, cs |-> cs, rest |-> <<>>]

\* lines 305-333: the basic header; fmtTpye and csid
BasicHeader(b) ==
    IF Len(b) < 1
    THEN [err |-> "EOF", n |-> 0, fmt |-> 0, csid |-> 0, known |-> FALSE, rest |-> <<>>]
    ELSE LET header == b[1]
             fmtTpye == header \div 64
             low == header % 64
             b1 == Drop(b, 1)
         IN CASE low = 0 ->
                   IF Len(b1) < 1
                   THEN [err |-> "EOF", n |-> 1, fmt |-> fmtTpye, csid |-> 0,
                         known |-> FALSE, rest |-> <<>>]
                   ELSE [err |-> "nil", n |-> 2, fmt |-> fmtTpye, csid |-> b1[1] + 64,
                         known |-> TRUE, rest |-> Drop(b1, 1)]
              [] low = 1 ->
                   IF Len(b1) < 2
                   THEN [err |-> "EOF", n |-> 1, fmt |-> fmtTpye, csid |-> 1,
                         known |-> FALSE, rest |-> <<>>]
                   ELSE [err |-> "nil", n |-> 3, fmt |-> fmtTpye,
                         csid |-> U16BE(b1, 1) + 64, known |-> TRUE, rest |-> Drop(b1, 2)]
              [] OTHER ->
                   [err |-> "nil", n |-> 1, fmt |-> fmtTpye, csid |-> low,
                    known |-> TRUE, rest |-> b1]

\* mutant: a message header is accepted while a message is in progress
InProgressIgnored(cs) == FALSE

\* lines 356, 393, 428: cs.msgdataleft != 0
InProgress(cs) == cs.msgdataleft # 0

\* mutant: the 4 bytes of the extended timestamp are not counted in n
ExtTimestampUncounted(cs1, ts24, b, hn) ==
    IF ts24 = 16777215
    THEN IF Len(b) < 4
         THEN [err |-> "EOF", n |-> 0, cs |-> cs1, ts |-> Zero32, rest |-> <<>>]
         ELSE [err |-> "nil", n |-> hn, cs |-> [cs1 EXCEPT !.hastimeext = TRUE],
               ts |-> U32BE(b, 1), rest |-> Drop(b, 4)]
    ELSE [err |-> "nil", n |-> hn, cs |-> [cs1 EXCEPT !.hastimeext = FALSE],
          ts |-> ToU32(ts24), rest |-> b]

\* mutant: hastimeext is never recorded
ExtTimestampUnrecorded(cs1, ts24, b, hn) ==
    IF ts24 = 16777215
    THEN IF Len(b) < 4
         THEN [err |-> "EOF", n |-> 0, cs |-> cs1, ts |-> Zero32, rest |-> <<>>]
         ELSE [err |-> "nil", n |-> hn + 4, cs |-> [cs1 EXCEPT !.hastimeext = FALSE],
               ts |-> U32BE(b, 1), rest |-> Drop(b, 4)]
    ELSE [err |-> "nil", n |-> hn, cs |-> [cs1 EXCEPT !.hastimeext = FALSE],
          ts |-> ToU32(ts24), rest |-> b]

\* lines 370-379 (406-415, 439-448): the extended timestamp after a header
\* whose 3-byte field is ts24; cs1 is the chunk stream with the header stored
ExtTimestamp(cs1, ts24, b, hn) ==
    IF ts24 = 16777215
    THEN IF Len(b) < 4
         THEN [err |-> "EOF", n |-> 0, cs |-> cs1, ts |-> Zero32, rest |-> <<>>]
         ELSE [err |-> "nil", n |-> hn + 4, cs |-> [cs1 EXCEPT !.hastimeext = TRUE],
               ts |-> U32BE(b, 1), rest |-> Drop(b, 4)]
    ELSE [err |-> "nil", n |-> hn, cs |-> [cs1 EXCEPT !.hastimeext = FALSE],
          ts |-> ToU32(ts24), rest |-> b]

\* lines 344-381: case 0
Header0(cs, b) ==
    IF InProgress(cs) THEN [err |-> "proto", n |-> 0, cs |-> cs, rest |-> b]
    ELSE IF Len(b) < 11 THEN Eof(cs)
    ELSE LET cs1 == [cs EXCEPT !.msghdrtype = 0,
                               !.msgdatalen = U24BE(b, 4),
                               !.msgtypeid = b[7],
                               !.msgsid = U32LE(b, 8)]
             x == ExtTimestamp(cs1, U24BE(b, 1), Drop(b, 11), 11)
         IN IF x.err # "nil" THEN [err |-> x.err, n |-> 0, cs |-> x.cs, rest |-> <<>>]
            ELSE [err |-> "nil", n |-> x.n,
                  cs |-> Start([x.cs EXCEPT !.timenow = x.ts]), rest |-> x.rest]

\* lines 383-418: case 1
Header1(cs, b) ==
    IF InProgress(cs) THEN [err |-> "proto", n |-> 0, cs |-> cs, rest |-> b]
    ELSE IF Len(b) < 7 THEN Eof(cs)
    ELSE LET cs1 == [cs EXCEPT !.msghdrtype = 1,
                               !.msgdatalen = U24BE(b, 4),
                               !.msgtypeid = b[7]]
             x == ExtTimestamp(cs1, U24BE(b, 1), Drop(b, 7), 7)
         IN IF x.err # "nil" THEN [err |-> x.err, n |-> 0, cs |-> x.cs, rest |-> <<>>]
            ELSE [err |-> "nil", n |-> x.n,
                  cs |-> Start([x.cs EXCEPT !.timedelta = x.ts,
                                            !.timenow = Add32(@, x.ts)]),
                  rest |-> x.rest]

\* lines 420-451: case 2
Header2(cs, b) ==
    IF InProgress(cs) THEN [err |-> "proto", n |-> 0, cs |-> cs, rest |-> b]
    ELSE IF Len(b) < 3 THEN Eof(cs)
    ELSE LET cs1 == [cs EXCEPT !.msghdrtype = 2]
             x == ExtTimestamp(cs1, U24BE(b, 1), Drop(b, 3), 3)
         IN IF x.err # "nil" THEN [err |-> x.err, n |-> 0, cs |-> x.cs, rest |-> <<>>]
            ELSE [err |-> "nil", n |-> x.n,
                  cs |-> Start([x.cs EXCEPT !.timedelta = x.ts,
                                            !.timenow = Add32(@, x.ts)]),
                  rest |-> x.rest]

\* mutant: a type-3 chunk never starts a message
RestartNever(cs) == cs

\* lines 478-480: a type-3 chunk with no message in progress starts one
Restart(cs) == IF cs.msgdataleft = 0 THEN Start(cs) ELSE cs

\* lines 453-480: case 3
Header3(cs, b) ==
    IF cs.hastimeext /\ EXTTIME
    THEN IF cs.msghdrtype \in {0, 1, 2}
         THEN IF Len(b) < 4 THEN Eof(cs)
              ELSE [err |-> "nil", n |-> 4,
                    cs |-> Restart([cs EXCEPT !.timenow =
                                       IF cs.msghdrtype = 0 THEN U32BE(b, 1)
                                       ELSE Add32(@, U32BE(b, 1))]),
                    rest |-> Drop(b, 4)]
         ELSE [err |-> "nil", n |-> 0, cs |-> Restart(cs), rest |-> b]
    ELSE [err |-> "nil", n |-> 0,
          cs |-> Restart(IF cs.msghdrtype \in {1, 2}
                         THEN [cs EXCEPT !.timenow = Add32(@, cs.timedelta)]
                         ELSE cs),
          rest |-> b]

\* lines 343-484: switch fmtTpye
MsgHeader(fmtTpye, cs, b) ==
    CASE fmtTpye = 0 -> Header0(cs, b)
      [] fmtTpye = 1 -> Header1(cs, b)
      [] fmtTpye = 2 -> Header2(cs, b)
      [] fmtTpye = 3 -> Header3(cs, b)

\* mutant: the whole rest of the message is read as one chunk
ChunkSizeUncapped(left, max) == left

\* lines 486-489: size of the payload of this chunk
ChunkSize(left, max) == IF left > max THEN max ELSE left

\* lines 486-498: the payload. io.ReadFull copies what arrived into
\* cs.msgdata[off:off+size] even when it fails.
Payload(cs, max, b) ==
    LET size == ChunkSize(cs.msgdataleft, max)
        off == cs.msgdatalen - cs.msgdataleft
        have == IF Len(b) < size THEN Len(b) ELSE size
        data == [i \in 1 .. Len(cs.msgdata) |->
                    IF i > off /\ i <= off + have THEN b[i - off] ELSE cs.msgdata[i]]
    IN IF Len(b) < size
       THEN [err |-> "EOF", n |-> 0, cs |-> [cs EXCEPT !.msgdata = data],
             got |-> Take(b, have), rest |-> <<>>]
       ELSE [err |-> "nil", n |-> size,
             cs |-> [cs EXCEPT !.msgdata = data, !.msgdataleft = @ - size],
             got |-> Take(b, size), rest |-> Drop(b, size)]

\* lines 335-339: look the chunk stream up, or create it
ChunkStreamOf(csmap, csid) ==
    IF csid \in DOMAIN csmap THEN csmap[csid] ELSE NewChunkStream

\* mutant: one chunk-stream state shared by every csid
WithChunkStreamShared(csmap, csid, cs) ==
    [c \in DOMAIN csmap \cup {csid} |-> cs]

\* the map with the chunk stream of csid set to cs (cs is a pointer into the map)
WithChunkStream(csmap, csid, cs) ==
    [c \in DOMAIN csmap \cup {csid} |-> IF c = csid THEN cs ELSE csmap[c]]

\* lines 303-498: readChunk up to the end of the payload, on the bytes b
ReadChunkBytes(csmap, max, b) ==
    LET bh == BasicHeader(b)
    IN IF bh.err # "nil"
       THEN [err |-> bh.err, n |-> 0, fmt |-> bh.fmt, csid |-> bh.csid,
             known |-> FALSE, csmap |-> csmap, got |-> <<>>, payload |-> FALSE,
             rest |-> <<>>]
       ELSE LET mh == MsgHeader(bh.fmt, ChunkStreamOf(csmap, bh.csid), bh.rest)
            IN IF mh.err # "nil"
               THEN [err |-> mh.err, n |-> 0, fmt |-> bh.fmt, csid |-> bh.csid,
                     known |-> TRUE, csmap |-> WithChunkStream(csmap, bh.csid, mh.cs),
                     got |-> <<>>, payload |-> FALSE, rest |-> mh.rest]
               ELSE LET pl == Payload(mh.cs, max, mh.rest)
                    IN [err |-> pl.err, n |-> bh.n + mh.n + pl.n, fmt |-> bh.fmt,
                        csid |-> bh.csid, known |-> TRUE,
                        csmap |-> WithChunkStream(csmap, bh.csid, pl.cs),
                        got |-> pl.got, payload |-> pl.err = "nil", rest |-> pl.rest]

\* mutant: every chunk is handed to the dispatcher
CompleteAlways(cs) == TRUE

\* line 505: the message is complete
Complete(cs) == cs.msgdataleft = 0

\* RtmpMsgHandles: the message type ids that have a handler
hands(msgtypeid) == msgtypeid \in {1, 3, 4, 5, 6, 8, 9, 15, 17, 18, 20}

----------------------------------------------------------------------------
(* Chunk codec: the write side.                                            *)

\* mutant: a continuation header never carries the extended timestamp
fillChunk3HeaderNoExt(csid, timestamp) == <<(csid % 64) + 192>>

\* func (self *Session) fillChunk3Header: the bytes it puts into b
fillChunk3Header(csid, timestamp) ==
    <<(csid % 64) + 192>>
        \o (IF GeFFFFFF(timestamp) THEN PutU32BE(timestamp) ELSE <<>>)

\* func (self *Session) fillChunk0Header: the bytes it puts into b
fillChunk0Header(csid, timestamp, msgtypeid, msgsid, msgdatalen) ==
    <<csid % 64>>
        \o (IF ~GeFFFFFF(timestamp) THEN PutU24BE(timestamp) ELSE <<255, 255, 255>>)
        \o PutU24BE(ToU32(msgdatalen))
        \o <<msgtypeid>>
        \o PutU32LE(msgsid)
        \o (IF GeFFFFFF(timestamp) THEN PutU32BE(timestamp) ELSE <<>>)

RECURSIVE Continuations(_, _, _, _)
\* the type-3 chunks that carry the rest of a payload, at most max bytes each
Continuations(csid, timestamp, data, max) ==
    IF data = <<>> THEN <<>>
    ELSE LET k == IF Len(data) > max THEN max ELSE Len(data)
         IN fillChunk3Header(csid, timestamp) \o Take(data, k)
                \o Continuations(csid, timestamp, Drop(data, k), max)

\* DoSend: one type-0 chunk, then type-3 continuations
DoSendBytes(m, max) ==
    LET k == IF Len(m.msgdata) > max THEN max ELSE Len(m.msgdata)
    IN fillChunk0Header(m.csid, m.timestamp, m.msgtypeid, m.msgsid, Len(m.msgdata))
           \o Take(m.msgdata, k)
           \o Continuations(m.csid, m.timestamp, Drop(m.msgdata, k), max)

----------------------------------------------------------------------------
(* Chunk codec: state, inputs and actions.                                 *)

\* NewSesion: readMaxChunkSize = writeMaxChunkSize = 128
DefaultChunkSize == 128

\* a window-ack-size small enough for the bounded runs to pass it
AckWindow == 16

\* chunk sizes of a session: the default, or what a set-chunk-size installed
ChunkSizes == {1, 2, DefaultChunkSize}

\* read-ack windows of a session: 0 (acks disabled) or what the peer declared
AckSizes == {Zero32, ToU32(AckWindow)}

NoMsg == [none |-> TRUE]

NoCall ==
    [err |-> "nil", fmt |-> 0, csid |-> 0, known |-> FALSE, n |-> 0, got |-> <<>>,
     payload |-> FALSE, dispatched |-> FALSE, invoked |-> FALSE, msg |-> NoMsg,
     ack |-> <<>>, wire |-> <<>>]

NoAsm == [c \in {} |-> [chunks |-> 0, wire |-> <<>>]]

\* the chunk-codec state of a session just made by NewSesion
ChunkIdle ==
    /\ bufr = <<>>
    /\ readcsmap = [c \in {} |-> NewChunkStream]
    /\ readMaxChunkSize = DefaultChunkSize
    /\ writeMaxChunkSize = DefaultChunkSize
    /\ ackn = Zero32
    /\ readAckSize = Zero32
    /\ last = NoCall
    /\ asm = NoAsm
    /\ sent = NoMsg
    /\ nread = 0
    /\ nmsg = 0

\* the registry does not take part in the chunk specifications
RegistryIdle ==
    /\ PublishingSessionMap = [i \in {} |-> 0]
    /\ mutex = [i \in {} |-> 0]
    /\ pc = [t \in {} |-> "idle"]
    /\ path = [t \in {} |-> <<>>]
    /\ ok = [t \in {} |-> FALSE]
    /\ ret = [t \in {} |-> FALSE]
    /\ obs = [a \in {} |-> 0]

\* mutant: the handler is called without the test for nil
HandlerCalledUnchecked(dispatched, msgtypeid) == dispatched

\* line 513: hands[cs.msgtypeid] != nil, for a complete message
HandlerCalled(dispatched, msgtypeid) == dispatched /\ hands(msgtypeid)

\* mutant: the ack is sent as soon as the counter reaches the window
AckDueAtWindow(counted, size) == size # Zero32 /\ ~Gt32(size, counted)

\* line 520: self.readAckSize != 0 && self.ackn > self.readAckSize
AckDue(counted, size) == size # Zero32 /\ Gt32(counted, size)

\* one call of readChunk on the bytes b. herr: the handler returns an error;
\* aerr: writeRtmpMsgAck returns an error.
ReadChunkOn(b) ==
    \E r \in {ReadChunkBytes(readcsmap, readMaxChunkSize, b)} :
    LET cs == ChunkStreamOf(r.csmap, r.csid)
        before == ChunkStreamOf(readcsmap, r.csid)
        dispatched == r.err = "nil" /\ Complete(cs)
        invoked == HandlerCalled(dispatched, cs.msgtypeid)
        counted == Add32(ackn, ToU32(r.n))
        starts == r.fmt # 3 \/ before.msgdataleft = 0
        old == IF r.csid \in DOMAIN asm THEN asm[r.csid]
               ELSE [chunks |-> 0, wire |-> <<>>]
    IN \E herr \in (IF invoked THEN BOOLEAN ELSE {FALSE}) :
       \E aerr \in (IF r.err = "nil" /\ ~herr /\ AckDue(counted, readAckSize)
                    THEN BOOLEAN ELSE {FALSE}) :
       LET due == r.err = "nil" /\ ~herr /\ AckDue(counted, readAckSize)
       IN /\ readcsmap' = r.csmap
          /\ bufr' = r.rest
          /\ ackn' = IF r.err # "nil" \/ herr THEN ackn
                     ELSE IF due /\ ~aerr THEN Zero32
                     ELSE counted
          /\ last' = [err |-> IF r.err # "nil" THEN r.err
                              ELSE IF herr THEN "handler"
                              ELSE IF aerr THEN "ack"
                              ELSE "nil",
                      fmt |-> r.fmt, csid |-> r.csid, known |-> r.known, n |-> r.n,
                      got |-> r.got, payload |-> r.payload,
                      dispatched |-> dispatched, invoked |-> invoked,
                      msg |-> IF dispatched
                              THEN [timestamp |-> cs.timenow, msgsid |-> cs.msgsid,
                                    msgtypeid |-> cs.msgtypeid, msgdata |-> cs.msgdata]
                              ELSE NoMsg,
                      ack |-> IF due THEN <<counted>> ELSE <<>>,
                      wire |-> b]
          /\ asm' = IF ~r.payload THEN asm
                    ELSE [c \in DOMAIN asm \cup {r.csid} |->
                             IF c # r.csid THEN asm[c]
                             ELSE IF starts THEN [chunks |-> 1, wire |-> r.got]
                             ELSE [chunks |-> old.chunks + 1,
                                   wire |-> old.wire \o r.got]]
          /\ nread' = nread + 1
          /\ nmsg' = IF starts THEN nmsg + 1 ELSE nmsg

\* rtmpReadMsgCycle: readChunk is called until it returns an error
Reading == last.err = "nil"

(* The peer: any bytes. A call of readChunk is given the bytes it consumes, *)
(* a header drawn from a small set and a payload, or fewer bytes (the       *)
(* connection ends).                                                        *)

\* the basic header of fmt and csid, in its 1, 2 or 3 byte form
BasicBytes(fmt, csid) ==
    IF csid < 64 THEN <<fmt * 64 + csid>>
    ELSE IF csid < 320 THEN <<fmt * 64, csid - 64>>
    ELSE <<fmt * 64 + 1, (csid - 64) \div 256, (csid - 64) % 256>>

\* a 3-byte timestamp field below 0xFFFFFF
SmallTime == <<0, 0, 2>>

\* the 3-byte timestamp field 0xFFFFFF
ExtMark == <<255, 255, 255>>

\* a 4-byte extended timestamp: 0xFFFFFFFE
ExtTime == <<255, 255, 255, 254>>

\* message stream id 1, little endian
Sid1 == <<1, 0, 0, 0>>

Len3(l) == PutU24BE(ToU32(l))

\* the message lengths the peer announces
PeerLens == {0, 1, MaxLen}

\* headers on csid 3: every length with a small timestamp, and single cases of
\* an extended timestamp, of a connection that ends before the extended
\* timestamp, of a message type without handler, and of type-3 chunks that
\* repeat the extended timestamp or carry another one; on csid 64: a type-0 chunk
\* with a 2-byte basic header and a type-3 chunk with a 3-byte basic header
PeerHeaders ==
    {BasicBytes(0, 3) \o SmallTime \o Len3(l) \o <<8>> \o Sid1 : l \in PeerLens}
    \cup {BasicBytes(0, 3) \o ExtMark \o Len3(MaxLen) \o <<8>> \o Sid1 \o ExtTime,
          BasicBytes(0, 3) \o ExtMark \o Len3(1) \o <<8>> \o Sid1,
          BasicBytes(0, 3) \o SmallTime \o Len3(1) \o <<2>> \o Sid1,
          BasicBytes(1, 3) \o SmallTime \o Len3(1) \o <<8>>,
          BasicBytes(1, 3) \o ExtMark \o Len3(MaxLen) \o <<9>> \o ExtTime,
          BasicBytes(2, 3) \o SmallTime,
          BasicBytes(3, 3),
          BasicBytes(3, 3) \o ExtTime,
          BasicBytes(3, 3) \o <<0, 0, 0, 5>>,
          BasicBytes(0, 64) \o SmallTime \o Len3(MaxLen) \o <<9>> \o Sid1,
          <<3 * 64 + 1, 0, 0>>}

\* the payload bytes readChunk asks for after the header h
Wanted(h) ==
    LET bh == BasicHeader(h)
        mh == MsgHeader(bh.fmt, ChunkStreamOf(readcsmap, bh.csid), bh.rest)
    IN IF bh.err # "nil" THEN 0
       ELSE IF mh.err # "nil" \/ mh.rest # <<>> THEN 0
       ELSE ChunkSize(mh.cs.msgdataleft, readMaxChunkSize)

\* the chunk with header h begins a message: it is no type-3 chunk of a message
\* in progress
Begins(h) ==
    LET bh == BasicHeader(h)
    IN bh.fmt # 3 \/ ChunkStreamOf(readcsmap, bh.csid).msgdataleft = 0

\* k payload bytes, different from every byte of the chunks read before
Fresh(k) == [i \in 1 .. k |-> 16 * (nread + 1) + i]

\* the headers after which the connection may end inside the payload
CutHeaders ==
    {BasicBytes(3, 3), BasicBytes(0, 3) \o SmallTime \o Len3(MaxLen) \o <<8>> \o Sid1}

\* the payloads that follow the header h: what readChunk asks for, or one
\* byte less
PeerPayloads(h) ==
    UNION {{Fresh(w)} \cup (IF w > 0 /\ h \in CutHeaders THEN {Fresh(w - 1)} ELSE {}) :
              w \in {Wanted(h)}}

InitChunk ==
    /\ RegistryIdle
    /\ OtherIdle
    /\ bufr = <<>>
    /\ readcsmap = [c \in {} |-> NewChunkStream]
    /\ readMaxChunkSize \in ChunkSizes
    /\ writeMaxChunkSize = DefaultChunkSize
    /\ ackn = Zero32
    /\ readAckSize \in AckSizes
    /\ last = NoCall
    /\ asm = NoAsm
    /\ sent = NoMsg
    /\ nread = 0
    /\ nmsg = 0

\* readChunk on the next bytes of an arbitrary peer
ReadChunkFromPeer ==
    /\ Reading
    /\ bufr = <<>>
    /\ \E h \in PeerHeaders :
          /\ Begins(h) => nmsg < MaxMsgs
          /\ \E p \in PeerPayloads(h) : ReadChunkOn(h \o p)
    /\ bufr' = <<>> \/ last'.err # "nil"
    /\ UNCHANGED <<readMaxChunkSize, writeMaxChunkSize, readAckSize, sent>>

NextChunk == ReadChunkFromPeer /\ UNCHANGED <<regvars, othervars>>

SpecChunk == InitChunk /\ [][NextChunk]_vars

----------------------------------------------------------------------------
(* Chunk codec: properties of readChunk under an arbitrary peer.           *)

\* the chunk stream the last call of readChunk worked on
LastStream == ChunkStreamOf(readcsmap, last.csid)

\* 0 <= msgdataleft <= msgdatalen == len(msgdata)
Consistent(cs) ==
    /\ 0 <= cs.msgdataleft
    /\ cs.msgdataleft <= cs.msgdatalen
    /\ cs.msgdatalen = Len(cs.msgdata)

\* a message handed over carries exactly msgdatalen bytes
DeliveredWhole == last.dispatched => Len(last.msg.msgdata) = LastStream.msgdatalen

C6_DeliveredOnceWhenComplete ==
    /\ last.payload =>
          (last.dispatched <=> Len(asm[last.csid].wire) = LastStream.msgdatalen)
    /\ last.dispatched => last.payload
    /\ last.payload /\ ~last.dispatched => LastStream.msgdataleft # 0
    /\ last.dispatched =>
          /\ LastStream.msgdataleft = 0
          /\ LastStream.timenow = last.msg.timestamp
          /\ LastStream.msgtypeid = last.msg.msgtypeid
          /\ LastStream.msgsid = last.msg.msgsid
    /\ last.invoked => last.dispatched

\* a message of several chunks was delivered by its last chunk
C6_Witness ==
    /\ last.dispatched
    /\ last.invoked
    /\ asm[last.csid].chunks = MaxLen
    /\ LastStream.msgdataleft = 0

\* the step is a call of readChunk on a type-0 chunk for a chunk stream with a
\* message in progress
Fmt0InProgress ==
    /\ nread' = nread + 1
    /\ last'.known
    /\ last'.fmt = 0
    /\ ChunkStreamOf(readcsmap, last'.csid).msgdataleft # 0

\* C9: a type-0 chunk on a chunk stream with msgdataleft # 0 makes readChunk
\* return an error, without invoking a handler and without changing the chunk
\* streams or the ack counter.
C9_Fmt0InProgressIsError ==
    [][Fmt0InProgress =>
          /\ last'.err = "proto"
          /\ ~last'.dispatched
          /\ ~last'.invoked
          /\ readcsmap' = readcsmap
          /\ ackn' = ackn
          /\ last'.ack = <<>>]_vars

\* readChunk refused a type-0 chunk on a chunk stream that is in the middle of
\* a message
C9_Witness ==
    /\ last.err = "proto"
    /\ last.fmt = 0
    /\ LastStream.msgdataleft # 0
    /\ LastStream.msgdataleft < LastStream.msgdatalen

\* the smaller of two numbers
Min(a, b) == IF a < b THEN a ELSE b

\* C10: a call of readChunk consumes min(msgdataleft, readMaxChunkSize)
\* payload bytes and stores them at offset msgdatalen - msgdataleft: the bytes
\* of the chunks of a message are in the buffer in wire order, and a message
\* of length L >= 1 is handed over after ceil(L / readMaxChunkSize) chunks
\* with exactly the bytes of the wire.
C10_ChunkedInWireOrder ==
    last.payload =>
       LET wire == asm[last.csid].wire
           k == Len(last.got)
           L == LastStream.msgdatalen
           M == readMaxChunkSize
       IN /\ k = Min(L - (Len(wire) - k), M)
          /\ last.n >= k
          /\ Len(wire) <= L
          /\ SubSeq(LastStream.msgdata, 1, Len(wire)) = wire
          /\ LastStream.msgdataleft = L - Len(wire)
          /\ Len(wire) > 0 => asm[last.csid].chunks = (Len(wire) + M - 1) \div M
          /\ last.dispatched /\ L >= 1 =>
                /\ asm[last.csid].chunks = (L + M - 1) \div M
                /\ last.msg.msgdata = wire

\* a message longer than the chunk size, whose length is no multiple of it,
\* was delivered
C10_Witness ==
    /\ last.dispatched
    /\ readMaxChunkSize = 2
    /\ LastStream.msgdatalen = MaxLen
    /\ asm[last.csid].chunks = (MaxLen + 1) \div 2
    /\ Len(last.got) = MaxLen - 2 * ((MaxLen - 1) \div 2)

\* (t + d) mod 2^32, digit by digit on the 16-bit halves
SumMod32(t, d) ==
    <<(t[1] + d[1] + ((t[2] + d[2]) \div 65536)) % 65536, (t[2] + d[2]) % 65536>>

\* the step is a call of readChunk on a type-1 or type-2 chunk that carries a
\* whole message
Fmt12SingleChunk ==
    /\ nread' = nread + 1
    /\ last'.fmt \in {1, 2}
    /\ last'.dispatched

\* C11: a single-chunk message begun by a type-1 or type-2 header is handed
\* over with the timestamp (timestamp of the previous message on the chunk
\* stream + delta) mod 2^32, where the delta is the 3-byte field (2 in the
\* peer's headers), or the 4-byte extended timestamp (0xFFFFFFFE) when the
\* field is 0xFFFFFF; also when the sum passes 2^32.
C11_DeltaAddsMod32 ==
    [][Fmt12SingleChunk =>
          LET before == ChunkStreamOf(readcsmap, last'.csid)
              after == ChunkStreamOf(readcsmap', last'.csid)
          IN /\ after.timedelta =
                   (IF after.hastimeext THEN <<65535, 65534>> ELSE <<0, 2>>)
             /\ asm'[last'.csid].chunks = 1
             /\ last'.msg.timestamp = SumMod32(before.timenow, after.timedelta)
             /\ after.timenow = last'.msg.timestamp]_vars

\* a message with delta 2 was handed over with timestamp 0, after a message
\* with timestamp 0xFFFFFFFE on the same chunk stream
C11_Witness ==
    /\ last.dispatched
    /\ last.fmt \in {1, 2}
    /\ nmsg = 2
    /\ LastStream.timedelta = <<0, 2>>
    /\ last.msg.timestamp = <<0, 0>>

\* the uint32 a as a natural (the counters of the model stay far below 2^31)
Nat32(a) == a[1] * 65536 + a[2]

\* the step is a call of readChunk that got as far as the byte counter: the
\* chunk was read and no handler failed
Counted == nread' = nread + 1 /\ last'.err \in {"nil", "ack"}

\* C12: with readAckSize # 0 a call of readChunk sends an acknowledgement,
\* carrying the counter, exactly when the counter plus the bytes of the chunk
\* exceeds readAckSize, and then resets the counter; after a call that
\* returned no error ackn <= readAckSize; with readAckSize = 0 no
\* acknowledgement is sent and the counter keeps counting.
C12_AckWhenWindowExceeded ==
    [][nread' = nread + 1 =>
          LET total == Nat32(ackn) + last'.n
              window == Nat32(readAckSize)
          IN /\ last'.ack # <<>> <=> (Counted /\ window # 0 /\ total > window)
             /\ last'.ack # <<>> => Nat32(last'.ack[1]) = total
             /\ last'.err = "nil" =>
                   /\ Nat32(ackn') = (IF last'.ack # <<>> THEN 0 ELSE total)
                   /\ window # 0 => Nat32(ackn') <= window
             /\ ~Counted => ackn' = ackn]_vars

\* an acknowledgement was sent for a counter above the window, and the counter
\* is 0 again
C12_Witness ==
    /\ last.err = "nil"
    /\ last.ack # <<>>
    /\ Nat32(last.ack[1]) > AckWindow
    /\ readAckSize = ToU32(AckWindow)
    /\ ackn = Zero32

\* the step is a call of readChunk that reads a type-3 chunk continuing a
\* message in progress that a type-1 or type-2 chunk began
Fmt3Continues ==
    /\ nread' = nread + 1
    /\ last'.fmt = 3
    /\ last'.payload
    /\ ChunkStreamOf(readcsmap, last'.csid).msgdataleft # 0
    /\ ChunkStreamOf(readcsmap, last'.csid).msghdrtype \in {1, 2}

\* C20: a type-3 chunk that continues a message begun by a type-1 or type-2
\* chunk does not change timenow, so the message is handed over with the
\* timestamp (T + d) mod 2^32 its first chunk set, however many chunks carry
\* it, with or without extended timestamp.
C20_ContinuationKeepsTimestamp ==
    [][Fmt3Continues =>
          /\ ChunkStreamOf(readcsmap', last'.csid).timenow =
                ChunkStreamOf(readcsmap, last'.csid).timenow
          /\ last'.dispatched =>
                last'.msg.timestamp = ChunkStreamOf(readcsmap, last'.csid).timenow]_vars

\* C21: after a type 0, 1 or 2 header read without error, hastimeext of the
\* chunk stream is true exactly when the 3-byte timestamp field of the header
\* was 0xFFFFFF, and then 4 more bytes were consumed after the 11, 7 or 3 of
\* the header; a type-3 chunk consumes 4 bytes after the basic header exactly
\* when hastimeext is set on its chunk stream, and none otherwise.
C21_ExtendedTimestampFlag ==
    [][(nread' = nread + 1 /\ last'.err = "nil") =>
          LET bh == BasicHeader(last'.wire)
              after == ChunkStreamOf(readcsmap', last'.csid)
              prev == ChunkStreamOf(readcsmap, last'.csid)
              hdr == last'.n - bh.n - Len(last'.got)
              marked == U24BE(bh.rest, 1) = 16777215
              plain == CASE last'.fmt = 0 -> 11 [] last'.fmt = 1 -> 7 [] OTHER -> 3
          IN IF last'.fmt = 3
             THEN /\ hdr = (IF prev.hastimeext THEN 4 ELSE 0)
                  /\ after.hastimeext = prev.hastimeext
             ELSE /\ after.hastimeext = marked
                  /\ hdr = plain + (IF marked THEN 4 ELSE 0)]_vars

\* a type-3 chunk was read on a chunk stream with hastimeext set, and a type-1
\* header with the 0xFFFFFF mark before it
C21_Witness ==
    /\ last.err = "nil"
    /\ last.fmt = 3
    /\ LastStream.hastimeext
    /\ LastStream.msghdrtype = 1
    /\ last.n = BasicHeader(last.wire).n + 4 + Len(last.got)

\* C22: a call of readChunk on csid X leaves the chunk stream of every other
\* csid as it was, and a message it hands over is the one the same chunk gives
\* on a connection that carries csid X alone: the payload bytes of the chunks
\* of X in wire order, and the type id, msgsid and timestamp of the chunk
\* stream of X.
C22_ChunkStreamsIndependent ==
    [][nread' = nread + 1 =>
          LET x == last'.csid
              own == [c \in DOMAIN readcsmap \cap {x} |-> readcsmap[c]]
              alone == ReadChunkBytes(own, readMaxChunkSize, last'.wire)
              cs == ChunkStreamOf(alone.csmap, x)
          IN /\ \A c \in DOMAIN readcsmap \ {x} :
                   c \in DOMAIN readcsmap' /\ readcsmap'[c] = readcsmap[c]
             /\ last'.dispatched =>
                   /\ last'.msg = [timestamp |-> cs.timenow, msgsid |-> cs.msgsid,
                                   msgtypeid |-> cs.msgtypeid, msgdata |-> cs.msgdata]
                   /\ last'.msg.msgdata = asm'[x].wire]_vars

\* a message of several chunks on csid 64 is handed over while a message on
\* csid 3 is partly read
C22_Witness ==
    /\ last.dispatched
    /\ last.csid = 64
    /\ asm[64].chunks >= 2
    /\ 3 \in DOMAIN readcsmap
    /\ readcsmap[3].msgdataleft > 0
    /\ readcsmap[3].msgdataleft < readcsmap[3].msgdatalen

\* C23: a complete message of a type without handler (type id 2 here) is
\* handed to no handler; the call returns no error unless the acknowledgement
\* it then owes cannot be written, its n bytes are counted in ackn or in the
\* acknowledgement sent, and readChunk is called again. A complete message
\* whose type has a handler is handed to it, whatever was dropped before.
C23_UnknownTypeDropped ==
    [][(nread' = nread + 1 /\ last'.dispatched) =>
          /\ last'.msg.msgtypeid = 2 => ~last'.invoked
          /\ last'.invoked = hands(last'.msg.msgtypeid)
          /\ ~last'.invoked =>
                /\ last'.err \in {"nil", "ack"}
                /\ last'.err = "ack" => last'.ack # <<>>
                /\ last'.err = "nil" => Reading'
                /\ IF last'.ack = <<>>
                   THEN Nat32(ackn') = Nat32(ackn) + last'.n
                   ELSE /\ Nat32(last'.ack[1]) = Nat32(ackn) + last'.n
                        /\ last'.err = "nil" => ackn' = Zero32]_vars

\* a message is handed to its handler on csid 64 after a message of type 2 was
\* dropped on csid 3
C23_Witness ==
    /\ last.invoked
    /\ last.err = "nil"
    /\ last.csid = 64
    /\ 3 \in DOMAIN readcsmap
    /\ readcsmap[3].msgtypeid = 2
    /\ readcsmap[3].msgdatalen = 1
    /\ readcsmap[3].msgdataleft = 0
    /\ ackn # Zero32

\* the step is a call of readChunk that reads, without error, a type-3 chunk
\* on a chunk stream with no message in progress
Fmt3Starts ==
    /\ nread' = nread + 1
    /\ last'.fmt = 3
    /\ last'.err = "nil"
    /\ ChunkStreamOf(readcsmap, last'.csid).msgdataleft = 0

\* the message such a chunk starts has the msgdatalen, msgtypeid and msgsid of
\* the message before it on the chunk stream, and this chunk's payload is its
\* first bytes
Fmt3Inherits ==
    LET prev == ChunkStreamOf(readcsmap, last'.csid)
        after == ChunkStreamOf(readcsmap', last'.csid)
    IN /\ after.msgdatalen = prev.msgdatalen
       /\ after.msgtypeid = prev.msgtypeid
       /\ after.msgsid = prev.msgsid
       /\ after.msghdrtype = prev.msghdrtype
       /\ Len(after.msgdata) = prev.msgdatalen
       /\ after.msgdataleft = prev.msgdatalen - Len(last'.got)
       /\ \A i \in 1 .. Len(last'.got) : after.msgdata[i] = last'.got[i]

\* C27 as stated: a type-3 chunk on a chunk stream with no message in progress
\* starts a message that inherits msgdatalen, msgtypeid and msgsid, with the
\* timestamp timenow + timedelta (mod 2^32) after a type 1 or 2 header and the
\* unchanged timenow after a type 0 header.
C27_Fmt3StartsWithStoredDelta ==
    [][Fmt3Starts =>
          LET prev == ChunkStreamOf(readcsmap, last'.csid)
              after == ChunkStreamOf(readcsmap', last'.csid)
          IN /\ Fmt3Inherits
             /\ after.timenow = IF prev.msghdrtype \in {1, 2}
                                THEN SumMod32(prev.timenow, prev.timedelta)
                                ELSE prev.timenow]_vars

\* C27, amended: as above when hastimeext is not set on the chunk stream; when
\* it is set, the 4 bytes that follow the basic header take the place of the
\* stored values: they are the timestamp after a type 0 header and the delta
\* added to timenow (mod 2^32) after a type 1 or 2 header.
C27_Fmt3StartsInheriting ==
    [][Fmt3Starts =>
          LET prev == ChunkStreamOf(readcsmap, last'.csid)
              after == ChunkStreamOf(readcsmap', last'.csid)
              ext == U32BE(BasicHeader(last'.wire).rest, 1)
              delta == IF prev.hastimeext THEN ext ELSE prev.timedelta
          IN /\ Fmt3Inherits
             /\ after.timedelta = prev.timedelta
             /\ after.timenow = IF prev.msghdrtype \in {1, 2}
                                THEN SumMod32(prev.timenow, delta)
                                ELSE IF prev.hastimeext THEN ext
                                ELSE prev.timenow]_vars

\* a type-3 chunk started a message after a type-1 header with an extended
\* timestamp, carrying 4 bytes that are not the stored delta
C27_Witness ==
    /\ last.fmt = 3
    /\ last.err = "nil"
    /\ last.payload
    /\ last.csid \in DOMAIN asm
    /\ asm[last.csid].chunks = 1
    /\ LastStream.msgdatalen > 0
    /\ LastStream.hastimeext
    /\ LastStream.msghdrtype = 1
    /\ U32BE(BasicHeader(last.wire).rest, 1) # LastStream.timedelta

\* C28: with readAckSize # 0, a call of readChunk that returns no error adds
\* to the counter exactly the bytes it took from the connection: the counter
\* carried by the acknowledgement it sends, if any, plus ackn after the call
\* is ackn before the call plus those bytes. From ackn = 0 and nothing read,
\* the acknowledged counters and ackn therefore add up to the bytes consumed.
C28_AckBytesConserved ==
    [][(nread' = nread + 1 /\ last'.err = "nil" /\ readAckSize # Zero32) =>
          LET consumed == Len(last'.wire) - Len(bufr')
              acked == IF last'.ack = <<>> THEN 0 ELSE Nat32(last'.ack[1])
          IN /\ acked + Nat32(ackn') = Nat32(ackn) + consumed
             /\ last'.n = consumed]_vars

\* an acknowledgement was sent by a call that read a type-1 header with its
\* extended timestamp, after a call that had left bytes in the counter
C28_Witness ==
    /\ last.err = "nil"
    /\ last.fmt = 1
    /\ LastStream.hastimeext
    /\ last.ack # <<>>
    /\ Nat32(last.ack[1]) > Len(last.wire)
    /\ nread >= 2

----------------------------------------------------------------------------
(* The read cycles: rtmpReadCmdMsgCycle and rtmpReadMsgCycle.              *)

\* mutant: the command cycle returns after every chunk
CmdDoneAlways(pub, play) == TRUE

\* line 535: self.publishing || self.playing
CmdDone(pub, play) == pub \/ play

\* what the cycle does after a call of readChunk that returned err: return the
\* error, return nil (the command cycle, once a flag is set), or go on
CycleResult(l, err, pub, play) ==
    IF err # "nil" THEN err
    ELSE IF l = "cmd" /\ CmdDone(pub, play) THEN "nil"
    ELSE "running"

\* the handlers of AMF commands (type ids 17 and 20) set publishing or playing
\* when a publish or play command succeeds; no other handler does
HandlerFlags(call, pub, play) ==
    IF call.invoked /\ call.err \in {"nil", "ack"} /\ call.msg.msgtypeid \in {17, 20}
    THEN {<<pub, play>>, <<TRUE, play>>, <<pub, TRUE>>}
    ELSE {<<pub, play>>}

\* what the peer sends in the command phase: a command, an audio message, a
\* continuation, and a header cut short
CmdHeaders ==
    {BasicBytes(0, 3) \o SmallTime \o Len3(1) \o <<20>> \o Sid1,
     BasicBytes(0, 3) \o SmallTime \o Len3(MaxLen) \o <<8>> \o Sid1,
     BasicBytes(3, 3),
     BasicBytes(0, 3) \o ExtMark \o Len3(1) \o <<8>> \o Sid1}

\* a session in its command phase, or a publishing or playing session in
\* rtmpReadMsgCycle
InitCmd ==
    /\ RegistryIdle
    /\ bufr = <<>>
    /\ readcsmap = [c \in {} |-> NewChunkStream]
    /\ readMaxChunkSize \in ChunkSizes
    /\ writeMaxChunkSize = DefaultChunkSize
    /\ ackn = Zero32
    /\ readAckSize \in AckSizes
    /\ last = NoCall
    /\ asm = NoAsm
    /\ sent = NoMsg
    /\ nread = 0
    /\ nmsg = 0
    /\ loop \in {"cmd", "msg"}
    /\ loopret = "running"
    /\ publishing \in (IF loop = "cmd" THEN {FALSE} ELSE BOOLEAN)
    /\ playing = (loop = "msg" /\ ~publishing)
    /\ ServeIdle
    /\ ProxyIdle
    /\ ListenIdle
    /\ RestIdle

\* one turn of the for loop: readChunk, then the test of the error and, in the
\* command cycle, of the flags
CycleTurn ==
    /\ loopret = "running"
    /\ bufr = <<>>
    /\ \E h \in CmdHeaders :
          /\ Begins(h) => nmsg < MaxMsgs
          /\ \E p \in PeerPayloads(h) : ReadChunkOn(h \o p)
    /\ bufr' = <<>> \/ last'.err # "nil"
    /\ \E f \in HandlerFlags(last', publishing, playing) :
          /\ publishing' = f[1]
          /\ playing' = f[2]
    /\ loopret' = CycleResult(loop, last'.err, publishing', playing')
    /\ UNCHANGED <<readMaxChunkSize, writeMaxChunkSize, readAckSize, sent, loop>>

NextCmd == CycleTurn /\ UNCHANGED <<regvars, srvvars, proxyvars, listenvars, restvars>>

SpecCmd == InitCmd /\ [][NextCmd]_vars

\* C17: rtmpReadCmdMsgCycle returns nil only after a call of readChunk that
\* returned no error and left publishing or playing set, and goes on reading
\* while both are false; rtmpReadMsgCycle never returns nil; either cycle
\* ends at the first error of readChunk and returns that error.
C17_CmdCycleEndsOnFlagOrError ==
    /\ loopret = "nil" =>
          /\ loop = "cmd"
          /\ nread > 0
          /\ last.err = "nil"
          /\ publishing \/ playing
    /\ (loopret = "running" /\ loop = "cmd") => (~publishing /\ ~playing)
    /\ loopret = "running" => last.err = "nil"
    /\ loopret \notin {"running", "nil"} => loopret = last.err
    /\ last.err # "nil" => loopret = last.err

\* the command cycle returned nil when the handler of the second message set
\* playing
C17_Witness ==
    /\ loop = "cmd"
    /\ loopret = "nil"
    /\ nmsg = 2
    /\ playing
    /\ ~publishing
    /\ last.msg.msgtypeid = 20

----------------------------------------------------------------------------
(* Chunk codec: a session that writes messages and a session that reads    *)
(* them from the same connection, with equal max chunk sizes.              *)

\* timestamps: a small one, 0xFFFFFE, 0xFFFFFF, 0x01000000 and 0xFFFFFFFF
Timestamps == {<<0, 2>>, <<255, 65534>>, <<255, 65535>>, <<256, 0>>, <<65535, 65535>>}


\* message stream id 0x01020304
SendSid == <<258, 772>>

\* the k payload bytes of the j-th message
Body(j, k) == [i \in 1 .. k |-> 16 * j + i]

\* the messages the writer may send next: on chunk stream 3 with every
\* timestamp, and on chunk stream 64, beyond the 1-byte basic header, with the
\* small one
Messages ==
    {[csid |-> c[1], timestamp |-> c[2], msgtypeid |-> 9, msgsid |-> SendSid,
      msgdata |-> Body(nmsg + 1, l)] :
        c \in ({3} \X Timestamps) \cup {<<64, <<0, 2>> >>}, l \in PeerLens}

\* csid fits the 6 bits of a 1-byte basic header and is none of its escapes
OneByteCsid(csid) == csid >= 2 /\ csid <= 63

\* every message written so far is on a chunk stream with a 1-byte basic header
Plain == sent = NoMsg \/ sent.plain

InitCodec ==
    /\ RegistryIdle
    /\ OtherIdle
    /\ bufr = <<>>
    /\ readcsmap = [c \in {} |-> NewChunkStream]
    /\ readMaxChunkSize \in ChunkSizes
    /\ writeMaxChunkSize = readMaxChunkSize
    /\ ackn = Zero32
    /\ readAckSize \in AckSizes
    /\ last = NoCall
    /\ asm = NoAsm
    /\ sent = NoMsg
    /\ nread = 0
    /\ nmsg = 0

\* the writer sends a message; its bytes become the input of the reader
DoSend ==
    /\ Reading
    /\ bufr = <<>>
    /\ nmsg < MaxMsgs
    /\ \E m \in Messages :
          /\ bufr' = DoSendBytes(m, writeMaxChunkSize)
          /\ sent' = [csid |-> m.csid, timestamp |-> m.timestamp,
                      msgtypeid |-> m.msgtypeid, msgsid |-> m.msgsid,
                      msgdata |-> m.msgdata, plain |-> Plain /\ OneByteCsid(m.csid)]
    /\ UNCHANGED <<readcsmap, readMaxChunkSize, writeMaxChunkSize, ackn, readAckSize,
                   last, asm, nread, nmsg>>

\* the reader calls readChunk on the bytes that arrived
ReadChunk ==
    /\ Reading
    /\ bufr # <<>>
    /\ ReadChunkOn(bufr)
    /\ UNCHANGED <<readMaxChunkSize, writeMaxChunkSize, readAckSize, sent>>

NextCodec ==
    \/ DoSend /\ UNCHANGED <<regvars, othervars>>
    \/ ReadChunk /\ UNCHANGED <<regvars, othervars>>

SpecCodec == InitCodec /\ [][NextCodec]_vars

\* all bytes of the message written last have been read
Arrived == sent # NoMsg /\ bufr = <<>>

\* the reader has begun to read the message written last
InFlight == sent # NoMsg /\ Len(bufr) < Len(DoSendBytes(sent, writeMaxChunkSize))

\* the message the last call of readChunk handed over is the one written last
SameMessage ==
    /\ last.dispatched
    /\ last.csid = sent.csid
    /\ last.msg.msgtypeid = sent.msgtypeid
    /\ last.msg.msgsid = sent.msgsid
    /\ last.msg.timestamp = sent.timestamp
    /\ last.msg.msgdata = sent.msgdata

\* C7: a message of any csid, type id, msgsid, timestamp and payload, written
\* as one type-0 chunk and type-3 continuations of at most writeMaxChunkSize
\* bytes and read by readChunk with the same max chunk size, is reassembled on
\* the same csid with the same type id, msgsid, timestamp and payload.
C7_RoundTrip == Arrived => SameMessage

\* C8: a message with timestamp 0xFFFFFE, 0xFFFFFF, 0x01000000 or 0xFFFFFFFF,
\* in one chunk or several, on a chunk stream with a 1-byte basic header, is
\* read back with the same 32-bit timestamp: every call of readChunk for it
\* succeeds on its chunk stream, the extended timestamp is expected on its
\* continuations exactly when timestamp >= 0xFFFFFF, the payload bytes read
\* are those written and no others, and the message is handed over whole with
\* its timestamp.
C8_ExtendedTimestampRoundTrip ==
    (InFlight /\ Plain /\ sent.timestamp # <<0, 2>>) =>
       /\ last.err \in {"nil", "handler", "ack"}
       /\ last.csid = sent.csid
       /\ last.payload
       /\ LastStream.timenow = sent.timestamp
       /\ LastStream.hastimeext = GeFFFFFF(sent.timestamp)
       /\ asm[sent.csid].wire = Take(sent.msgdata, Len(asm[sent.csid].wire))
       /\ Arrived =>
             /\ last.dispatched
             /\ last.msg.timestamp = sent.timestamp
             /\ last.msg.msgdata = sent.msgdata

\* a message of several chunks with timestamp 0xFFFFFFFF was handed over after
\* an earlier message
C8_Witness ==
    /\ Arrived
    /\ Plain
    /\ nmsg = 2
    /\ sent.timestamp = <<65535, 65535>>
    /\ last.dispatched
    /\ last.fmt = 3
    /\ asm[sent.csid].chunks = MaxLen
    /\ last.msg.timestamp = <<65535, 65535>>

----------------------------------------------------------------------------
(* The accept loop of rtmpServeStart and the session tasks it starts.      *)
(* Durations are in milliseconds.                                          *)

\* line 815: `var tempDelay time.Duration`, declared in the body of the loop
DeclaredTempDelay == 0

\* line 821: 5 * time.Millisecond
FirstDelay == 5

\* line 825: max := 1 * time.Second
MaxDelay == 1000

\* lines 820-827: the delay after a transient error, from the value tempDelay
\* has at that point
Backoff(td) ==
    LET d == IF td = 0 THEN FirstDelay ELSE td * 2
    IN IF d > MaxDelay THEN MaxDelay ELSE d

\* mutant: the session task has no deferred recover
DeferredRecoverMissing == FALSE

\* lines 846-854: the deferred function of the session task calls recover()
DeferredRecover == TRUE

\* socketListen succeeded and the loop is about to call Accept
InitServe ==
    /\ RegistryIdle
    /\ ChunkIdle
    /\ CmdIdle
    /\ ProxyIdle
    /\ ListenIdle
    /\ RestIdle
    /\ srvpc = "accept"
    /\ tempDelay = DeclaredTempDelay
    /\ sess = <<>>
    /\ slept = 0
    /\ streak = 0
    /\ faults = 0

\* mutant: a temporary error of Accept is returned like any other
AcceptTemporaryReturns ==
    /\ srvpc = "accept"
    /\ streak < MaxStreak
    /\ srvpc' = "returned"
    /\ streak' = streak + 1
    /\ UNCHANGED <<tempDelay, slept, sess, faults>>

\* an iteration in which Accept fails with a temporary error: sleep, continue
AcceptTemporary ==
    /\ srvpc = "accept"
    /\ streak < MaxStreak
    /\ tempDelay' = Backoff(DeclaredTempDelay)
    /\ slept' = tempDelay'
    /\ streak' = streak + 1
    /\ UNCHANGED <<srvpc, sess, faults>>

\* an iteration in which Accept fails with another error: return e
AcceptFatal ==
    /\ srvpc = "accept"
    /\ srvpc' = "returned"
    /\ tempDelay' = DeclaredTempDelay
    /\ UNCHANGED <<sess, slept, streak, faults>>

\* an iteration in which Accept succeeds: NewSesion, go func() { ... }()
AcceptOk ==
    /\ srvpc = "accept"
    /\ Len(sess) < MaxConns
    /\ tempDelay' = 0
    /\ streak' = 0
    /\ sess' = Append(sess, [st |-> "serving", born |-> faults])
    /\ UNCHANGED <<srvpc, slept, faults>>

\* a panic inside ServerHandle of session c: the deferred function recovers
\* and calls rtmpCloseSessionHanler; without recover the process dies
SessionPanic(c) ==
    /\ srvpc # "crashed"
    /\ sess[c].st = "serving"
    /\ IF DeferredRecover
       THEN /\ sess' = [sess EXCEPT ![c].st = "closed"]
            /\ faults' = faults + 1
            /\ UNCHANGED srvpc
       ELSE /\ sess' = [d \in DOMAIN sess |-> [sess[d] EXCEPT !.st = "killed"]]
            /\ srvpc' = "crashed"
            /\ UNCHANGED faults
    /\ UNCHANGED <<tempDelay, slept, streak>>

\* ServerHandle of session c returns
SessionReturn(c) ==
    /\ srvpc # "crashed"
    /\ sess[c].st = "serving"
    /\ sess' = [sess EXCEPT ![c].st = "done"]
    /\ UNCHANGED <<srvpc, tempDelay, slept, streak, faults>>

NextServe ==
    \/ AcceptTemporary /\ UNCHANGED <<regvars, chunkvars, cmdvars, proxyvars, listenvars, restvars>>
    \/ AcceptFatal /\ UNCHANGED <<regvars, chunkvars, cmdvars, proxyvars, listenvars, restvars>>
    \/ AcceptOk /\ UNCHANGED <<regvars, chunkvars, cmdvars, proxyvars, listenvars, restvars>>
    \/ \E c \in 1 .. MaxConns :
          c \in DOMAIN sess /\ SessionPanic(c) /\ UNCHANGED <<regvars, chunkvars, cmdvars, proxyvars, listenvars, restvars>>
    \/ \E c \in 1 .. MaxConns :
          c \in DOMAIN sess /\ SessionReturn(c) /\ UNCHANGED <<regvars, chunkvars, cmdvars, proxyvars, listenvars, restvars>>

SpecServe == InitServe /\ [][NextServe]_vars

\* C13: on the k-th consecutive transient Accept error the loop sleeps
\* min(5 ms * 2^(k-1), 1 s), and the delay is back at its start only after a
\* successful Accept.
C13_ExponentialBackoff ==
    streak >= 1 =>
       LET want == 5 * 2 ^ (streak - 1)
       IN slept = (IF want > 1000 THEN 1000 ELSE want)

\* C14: a panic in a session task is recovered in that task: the close
\* handler of that session runs, the accept loop and the tasks of the other
\* sessions are left as they are, and the process never dies of it.
C14_PanicStaysInItsSession ==
    /\ [](srvpc # "crashed")
    /\ [][\A c \in DOMAIN sess :
             (sess[c].st = "serving" /\ sess'[c].st \notin {"serving", "done"}) =>
                /\ sess'[c].st = "closed"
                /\ faults' = faults + 1
                /\ srvpc' = srvpc
                /\ \A d \in DOMAIN sess \ {c} : sess'[d] = sess[d]]_vars

\* a session was closed after a panic, an older session is still served, and
\* the loop has accepted a connection since
C14_Witness ==
    /\ srvpc = "accept"
    /\ Len(sess) = 3
    /\ sess[1].st = "serving"
    /\ sess[2].st = "closed"
    /\ sess[3].st = "serving"
    /\ sess[3].born = 1

\* C24: an iteration in which Accept fails with a temporary error leaves the
\* loop at Accept; once rtmpServeStart has returned (Accept failed with
\* another error) it stays returned and no connection is accepted any more;
\* the return of a session's ServerHandle leaves the loop where it is.
C24_OnlyFatalAcceptErrorEndsLoop ==
    /\ [][streak' = streak + 1 => srvpc' = "accept"]_vars
    /\ [][srvpc = "returned" => srvpc' = "returned" /\ Len(sess') = Len(sess)]_vars
    /\ [][(\E c \in DOMAIN sess : sess'[c].st # sess[c].st) =>
             srvpc' = srvpc /\ Len(sess') = Len(sess)]_vars
    /\ [][(srvpc = "accept" /\ srvpc' = "returned") =>
             streak' = streak /\ sess' = sess]_vars

\* the loop returned on a fatal error after temporary errors, with a session
\* whose ServerHandle had returned and one still served
C24_Witness ==
    /\ srvpc = "returned"
    /\ streak >= 2
    /\ \E c \in DOMAIN sess : sess[c].st = "done"
    /\ \E c \in DOMAIN sess : sess[c].st = "serving"

----------------------------------------------------------------------------
(* rtmpClientPullProxy.                                                    *)

\* lines 130-136
stageClientConnect == 0
stageHandshakeStart == 1
stageHandshakeDone == 2
stageCommandDone == 3
stageSessionDone == 4

\* Dial, handshakeClient and connectPublish are not part of the sources: a
\* call succeeds, returns an error or panics. The `self` they are called on
\* is the variable of line 651, which `self := NewSesion(netConn)` at line
\* 676 shadows and never sets, so it is nil.
Outcomes == {"ok", "err", "panic"}

\* mutant: no error is worth a retry
rtmpCheckErrNever == FALSE

\* line 645: rtmpCheckErr returns true
rtmpCheckErr == TRUE

\* rtmpClientPullProxy(srcSession, network, host, desUrl, stage, flags) at the
\* head of its loops
InitProxy ==
    /\ RegistryIdle
    /\ ChunkIdle
    /\ CmdIdle
    /\ ServeIdle
    /\ ListenIdle
    /\ RestIdle
    /\ proxyStage = stageClientConnect
    /\ isBreak = TRUE
    /\ stage \in stageClientConnect .. stageSessionDone
    /\ isClosed = FALSE
    /\ perr = "nil"
    /\ proxypc = "running"
    /\ plast = [at |-> 0, outcome |-> "none", on |-> 0]
    /\ published = FALSE
    /\ nturns = 0
    /\ self = 0
    /\ inner = 0

\* lines 655-665: the deferred function after a panic. It runs the close
\* handler only when self is not nil and then evaluates self.netconn: with a
\* nil self that is a second panic, which nothing recovers.
Recovered(s) == IF s = 0 THEN "crashed" ELSE "returned"

\* lines 668-699: one turn of the inner loop, with the outcome o of the call
\* it makes. Line 676 declares a new self, so the self of line 651, on which
\* lines 683 and 689 make their calls, stays nil (0).
ProxyTurn(o) ==
    /\ proxypc = "running"
    /\ ~isClosed
    /\ proxyStage < stage
    /\ isBreak
    /\ nturns < MaxTurns
    /\ proxyStage \in {stageCommandDone, stageSessionDone} => o = "ok"
    /\ nturns' = nturns + 1
    /\ plast' = [at |-> proxyStage, outcome |-> o,
                 on |-> IF proxyStage \in {stageHandshakeStart, stageHandshakeDone}
                        THEN self ELSE 0]
    /\ proxypc' = IF o = "panic" THEN Recovered(self)
                  ELSE IF o = "err" /\ proxyStage = stageHandshakeDone /\ ~rtmpCheckErr
                  THEN "returned"
                  ELSE "running"
    /\ proxyStage' =
          CASE o = "panic" -> proxyStage
            [] proxyStage = stageClientConnect ->
                 IF o = "err" THEN proxyStage ELSE proxyStage + 1
            [] proxyStage = stageHandshakeStart ->
                 IF o = "err" THEN stageClientConnect ELSE proxyStage + 1
            [] proxyStage = stageHandshakeDone ->
                 IF o = "err" /\ rtmpCheckErr THEN stageClientConnect ELSE proxyStage
            [] OTHER -> proxyStage
    /\ perr' = IF o = "err" THEN "err"
               ELSE IF o = "ok" /\ proxyStage \in {stageClientConnect, stageHandshakeStart,
                                                   stageHandshakeDone}
               THEN "nil" ELSE perr
    /\ isBreak' = IF proxyStage = stageSessionDone THEN FALSE ELSE isBreak
    /\ published' = IF proxyStage = stageHandshakeDone THEN o = "ok"
                    ELSE IF proxyStage = stageClientConnect THEN FALSE
                    ELSE published
    /\ inner' = IF proxyStage = stageClientConnect /\ o = "ok" THEN inner + 1 ELSE inner
    /\ UNCHANGED <<stage, isClosed, self>>

\* another task closes the source session
SourceCloses ==
    /\ proxypc = "running"
    /\ ~isClosed
    /\ isClosed' = TRUE
    /\ UNCHANGED <<proxyStage, isBreak, stage, perr, proxypc, plast, published, nturns,
                   self, inner>>

\* line 667 finds srcSession.isClosed and line 702 returns err
ProxyReturn ==
    /\ proxypc = "running"
    /\ isClosed
    /\ proxypc' = "returned"
    /\ UNCHANGED <<proxyStage, isBreak, stage, isClosed, perr, plast, published, nturns,
                   self, inner>>

NextProxy ==
    \/ \E o \in Outcomes : ProxyTurn(o) /\ UNCHANGED <<regvars, chunkvars, cmdvars, srvvars, listenvars, restvars>>
    \/ SourceCloses /\ UNCHANGED <<regvars, chunkvars, cmdvars, srvvars, listenvars, restvars>>
    \/ ProxyReturn /\ UNCHANGED <<regvars, chunkvars, cmdvars, srvvars, listenvars, restvars>>

SpecProxy == InitProxy /\ [][NextProxy]_vars

\* C15: with a target stage beyond stageHandshakeDone, each of the dial, the
\* client handshake and connectPublish, when it succeeds, advances the proxy
\* stage by one (clientConnect -> handshakeStart -> handshakeDone ->
\* commandDone), and connectPublish is not called again on a connection on
\* which it succeeded.
C15_StagesAdvanceInOrder ==
    [][(nturns' = nturns + 1 /\ stage > stageHandshakeDone /\ plast'.outcome = "ok") =>
          /\ proxyStage' = proxyStage + 1
          /\ ~(published /\ plast'.at = stageHandshakeDone)]_vars

\* C25: a call that fails leaves the proxy running in stageClientConnect, to
\* dial again; the function returns only when the source session is closed,
\* and once it is closed the return is the one step the function can take.
C25_RetriesUntilSourceCloses ==
    /\ [][(nturns' = nturns + 1 /\ plast'.outcome = "err") =>
             proxyStage' = stageClientConnect /\ proxypc' = "running"]_vars
    /\ [][(proxypc = "running" /\ proxypc' = "returned") => isClosed]_vars
    /\ [][(proxypc = "running" /\ isClosed) => proxypc' = "returned"]_vars
    /\ []((proxypc = "running" /\ isClosed) => ENABLED ProxyReturn)

\* the function returned after connectPublish had failed and the proxy had
\* gone through a handshake more than once
C25_Witness ==
    /\ proxypc = "returned"
    /\ plast.outcome = "err"
    /\ plast.at = stageHandshakeDone
    /\ proxyStage = stageClientConnect
    /\ inner >= 2

\* C26: handshakeClient and connectPublish are called on the session NewSesion
\* made after the latest successful dial, never on nil, and the deferred
\* function never finds a nil self: the process does not die in it.
C26_CallsOnDialledSession ==
    /\ (plast.outcome # "none" /\ plast.at >= stageHandshakeStart) =>
          plast.on # 0 /\ plast.on = inner
    /\ proxypc # "crashed"

----------------------------------------------------------------------------
(* socketListen and createUnixSocket.                                      *)

\* mutant: the mode is left as the socket was created
OrNothing(m) == m

\* line 725: fi.Mode()|0060 on the permission bits m
OrGroupRW(m) == m + (3 - ((m \div 16) % 4)) * 16

\* bit k of the permission bits m
Bit(m, k) == (m \div 2 ^ k) % 2

HasPrefix(a, p) == Len(a) >= Len(p) /\ SubSeq(a, 1, Len(p)) = p

\* addresses: a path, host:port and the empty string
UnixPath == <<"/", "r">>
DefaultAddr == <<":", "1", "9", "3", "5">>
Addrs == {UnixPath, DefaultAddr, <<>>}

\* 0777, 0755, 0750, 0711, 0700, 0600: 0777 less a umask
Modes == {511, 493, 488, 457, 448, 384}

\* what can be at the path: nothing, a socket file nobody listens on, or the
\* socket of another process
Files ==
    {NoFile} \cup [exists : {TRUE}, mode : Modes, user : {"stale", "other"}]

\* lines 713-727, createUnixSocket on file system entry f with a new socket
\* created with mode nm, and o the first call that fails ("ok": none).
\* ListenUnix fails on an existing path.
createUnixSocket(f, nm, o) ==
    IF f.exists \/ o = "listen"
    THEN [file |-> f, l |-> "nil", err |-> "listen"]
    ELSE IF o = "stat"
    THEN [file |-> [exists |-> TRUE, mode |-> nm, user |-> "self"],
          l |-> "unix", err |-> "stat"]
    ELSE IF o = "chmod"
    THEN [file |-> [exists |-> TRUE, mode |-> nm, user |-> "self"],
          l |-> "unix", err |-> "chmod"]
    ELSE [file |-> [exists |-> TRUE, mode |-> OrGroupRW(nm), user |-> "self"],
          l |-> "unix", err |-> "nil"]

CreateOutcomes == {"ok", "listen", "stat", "chmod"}

\* net.Dial("unix", addr) connects when some process listens on the socket
DialConnects(f) == f.exists /\ f.user \in {"other", "self"}

InitListen ==
    /\ RegistryIdle
    /\ ChunkIdle
    /\ CmdIdle
    /\ ServeIdle
    /\ ProxyIdle
    /\ RestIdle
    /\ lpc = "start"
    /\ addr \in Addrs
    /\ file \in Files
    /\ newmode \in Modes
    /\ lis = "nil"
    /\ lerr = "nil"
    /\ found = file
    /\ dialed = "none"
    /\ removed = FALSE

\* lines 732-735 and 754: the default address, and the kind of address
ListenStart ==
    /\ lpc = "start"
    /\ addr' = (IF addr = <<>> THEN DefaultAddr ELSE addr)
    /\ lpc' = (IF HasPrefix(addr', <<"/">>) THEN "create" ELSE "tcp")
    /\ UNCHANGED <<file, newmode, lis, lerr, found, dialed, removed>>

\* lines 755-762
ListenTCP(o) ==
    /\ lpc = "tcp"
    /\ lpc' = "done"
    /\ lis' = (IF o = "ok" THEN "tcp" ELSE "nil")
    /\ lerr' = (IF o = "ok" THEN "nil" ELSE "listen")
    /\ UNCHANGED <<addr, file, newmode, found, dialed, removed>>

\* line 740: the first createUnixSocket
CreateFirst(o) ==
    /\ lpc = "create"
    /\ \E r \in {createUnixSocket(file, newmode, o)} :
          /\ file' = r.file
          /\ lis' = r.l
          /\ lerr' = r.err
          /\ lpc' = (IF r.err = "nil" THEN "done" ELSE "dial")
    /\ UNCHANGED <<addr, newmode, found, dialed, removed>>

\* lines 743 and 750-752: the dial that tells whether the socket is in use
DialExisting ==
    /\ lpc = "dial"
    /\ IF DialConnects(file)
       THEN /\ dialed' = "ok"
            /\ lerr' = "inuse"
            /\ lis' = "nil"
            /\ lpc' = "done"
       ELSE /\ dialed' = "fail"
            /\ lerr' = "dial"
            /\ lpc' = "remove"
            /\ UNCHANGED lis
    /\ UNCHANGED <<addr, file, newmode, found, removed>>

\* lines 744-746: os.Remove(addr), which fails when nothing is there
RemoveExisting(o) ==
    /\ lpc = "remove"
    /\ IF file.exists /\ o = "ok"
       THEN /\ file' = NoFile
            /\ removed' = TRUE
            /\ lerr' = "nil"
            /\ lpc' = "recreate"
            /\ UNCHANGED lis
       ELSE /\ lerr' = "remove"
            /\ lis' = "nil"
            /\ lpc' = "done"
            /\ UNCHANGED <<file, removed>>
    /\ UNCHANGED <<addr, newmode, found, dialed>>

\* lines 747-749: the second createUnixSocket
CreateAgain(o) ==
    /\ lpc = "recreate"
    /\ \E r \in {createUnixSocket(file, newmode, o)} :
          /\ file' = r.file
          /\ lerr' = r.err
          /\ lis' = (IF r.err = "nil" THEN r.l ELSE "nil")
    /\ lpc' = "done"
    /\ UNCHANGED <<addr, newmode, found, dialed, removed>>

NextListen ==
    \/ ListenStart /\ UNCHANGED <<regvars, chunkvars, cmdvars, srvvars, proxyvars, restvars>>
    \/ \E o \in {"ok", "err"} :
          ListenTCP(o) /\ UNCHANGED <<regvars, chunkvars, cmdvars, srvvars, proxyvars, restvars>>
    \/ \E o \in CreateOutcomes :
          CreateFirst(o) /\ UNCHANGED <<regvars, chunkvars, cmdvars, srvvars, proxyvars, restvars>>
    \/ DialExisting /\ UNCHANGED <<regvars, chunkvars, cmdvars, srvvars, proxyvars, restvars>>
    \/ \E o \in {"ok", "err"} :
          RemoveExisting(o) /\ UNCHANGED <<regvars, chunkvars, cmdvars, srvvars, proxyvars, restvars>>
    \/ \E o \in CreateOutcomes :
          CreateAgain(o) /\ UNCHANGED <<regvars, chunkvars, cmdvars, srvvars, proxyvars, restvars>>

SpecListen == InitListen /\ [][NextListen]_vars

\* C16: socketListen on a path whose socket file already exists. When the
\* dial to it fails, the file is removed and the listener is created again
\* on a new socket file whose mode is the mode it was created with plus group
\* read and write; a call that fails on the way returns its error and no
\* listener, the removal leaving the file as it was. When the dial succeeds,
\* socketListen returns the "another process seems to be listening" error
\* with no listener and the socket file is the one that was there before.
C16_UnusedSocketRecreated ==
    (lpc = "done" /\ HasPrefix(addr, <<"/">>) /\ found.exists) =>
        /\ dialed # "none"
        /\ dialed = "fail" =>
              /\ lerr \in {"nil", "remove", "listen", "stat", "chmod"}
              /\ lerr # "remove" => removed
              /\ lerr = "remove" => file = found
              /\ lerr # "nil" => lis = "nil"
              /\ lerr = "nil" =>
                    /\ lis = "unix"
                    /\ file.exists /\ file.user = "self"
                    /\ \A k \in 0 .. 8 :
                          Bit(file.mode, k) = IF k \in {4, 5} THEN 1 ELSE Bit(newmode, k)
        /\ dialed = "ok" =>
              /\ lerr = "inuse"
              /\ lis = "nil"
              /\ ~removed
              /\ file = found

C16_Witness ==
    /\ lpc = "done"
    /\ HasPrefix(addr, <<"/">>)
    /\ found.exists /\ found.user = "stale"
    /\ dialed = "fail"
    /\ removed
    /\ lerr = "nil"
    /\ Bit(newmode, 4) = 0
    /\ lis = "unix"
    /\ file.mode # newmode

----------------------------------------------------------------------------
(* ListenAndServersStart and the done channel.                             *)

\* lines 772-781: self.done is made without a buffer, one task is started for
\* every rtmp and every http address, and the function waits at <-self.done
InitDone ==
    /\ RegistryIdle
    /\ ChunkIdle
    /\ CmdIdle
    /\ ServeIdle
    /\ ProxyIdle
    /\ ListenIdle
    /\ NaluIdle
    /\ ConfIdle
    /\ \E n \in 1 .. MaxAddrs :
          tasks \in [1 .. n -> [kind : {"rtmp", "http"}, at : {"start"}, err : {"nil"}]]
    /\ mainpc = "waiting"

\* lines 803-806: socketListen fails, rtmpServeStart returns and its deferred
\* function comes to the send self.done <- false
ListenFails(t) ==
    /\ tasks[t].kind = "rtmp"
    /\ tasks[t].at = "start"
    /\ tasks' = [tasks EXCEPT ![t].at = "sending", ![t].err = "listen"]
    /\ UNCHANGED mainpc

\* lines 803-813: socketListen succeeds and the accept loop begins
Listens(t) ==
    /\ tasks[t].kind = "rtmp"
    /\ tasks[t].at = "start"
    /\ tasks' = [tasks EXCEPT ![t].at = "accepting"]
    /\ UNCHANGED mainpc

\* line 836: Accept fails with an error that is not temporary, return e, and
\* the deferred function comes to the send
AcceptFails(t) ==
    /\ tasks[t].at = "accepting"
    /\ tasks' = [tasks EXCEPT ![t].at = "sending", ![t].err = "accept"]
    /\ UNCHANGED mainpc

\* httpServerStart is not part of the sources: when it ends it sends on done
\* like rtmpServeStart, or it does not
HttpEnds(t, notifies) ==
    /\ tasks[t].kind = "http"
    /\ tasks[t].at = "start"
    /\ tasks' = [tasks EXCEPT ![t].at = IF notifies THEN "sending" ELSE "exited"]
    /\ UNCHANGED mainpc

\* lines 781 and 801: the send of task t meets the receive of
\* ListenAndServersStart, which returns; the channel has no buffer, so a send
\* completes only in this step
Notify(t) ==
    /\ tasks[t].at = "sending"
    /\ mainpc = "waiting"
    /\ tasks' = [tasks EXCEPT ![t].at = "exited"]
    /\ mainpc' = "returned"

NextDone ==
    \/ \E t \in 1 .. MaxAddrs :
          t \in DOMAIN tasks /\ ListenFails(t)
             /\ UNCHANGED <<regvars, chunkvars, cmdvars, srvvars, proxyvars, listenvars,
                            naluvars, confvars>>
    \/ \E t \in 1 .. MaxAddrs :
          t \in DOMAIN tasks /\ Listens(t)
             /\ UNCHANGED <<regvars, chunkvars, cmdvars, srvvars, proxyvars, listenvars,
                            naluvars, confvars>>
    \/ \E t \in 1 .. MaxAddrs :
          t \in DOMAIN tasks /\ AcceptFails(t)
             /\ UNCHANGED <<regvars, chunkvars, cmdvars, srvvars, proxyvars, listenvars,
                            naluvars, confvars>>
    \/ \E t \in 1 .. MaxAddrs, notifies \in BOOLEAN :
          t \in DOMAIN tasks /\ HttpEnds(t, notifies)
             /\ UNCHANGED <<regvars, chunkvars, cmdvars, srvvars, proxyvars, listenvars,
                            naluvars, confvars>>
    \/ \E t \in 1 .. MaxAddrs :
          t \in DOMAIN tasks /\ Notify(t)
             /\ UNCHANGED <<regvars, chunkvars, cmdvars, srvvars, proxyvars, listenvars,
                            naluvars, confvars>>

SpecDone == InitDone /\ [][NextDone]_vars

\* C29: no rtmpServeStart task that has stopped is left at its send on the
\* done channel once ListenAndServersStart has taken the one value it
\* receives; from then on nothing receives, so such a task would stay blocked
\* for ever. ListenAndServersStart returns with the first notification.
C29_NoTaskBlockedOnDone ==
    /\ \A t \in DOMAIN tasks :
          ~(tasks[t].kind = "rtmp" /\ tasks[t].at = "sending" /\ mainpc = "returned")
    /\ mainpc = "returned" => \E t \in DOMAIN tasks : tasks[t].at = "exited"

----------------------------------------------------------------------------
(* h265Parse.SplitNALUs.                                                   *)

\* parse.go lines 238-242
NALU_RAW == 0
NALU_AVCC == 1
NALU_ANNEXB == 2

RECURSIVE AvccWalk(_, _, _)
\* parse.go lines 254-268: the loop of the AVCC branch, with _b = rb and
\* _val4 = v. _b[:_val4] fails when _val4 > cap(_b), and _b[_val4:] fails when
\* _val4 > len(_b): one of the two panics whenever _val4 > len(_b).
AvccWalk(rb, v, nalus) ==
    IF Gt32(v, ToU32(Len(rb)))
    THEN [panicked |-> TRUE, rest |-> rb, nalus |-> nalus]
    ELSE LET n1 == Append(nalus, Take(rb, Nat32(v)))
             r1 == Drop(rb, Nat32(v))
         IN IF Len(r1) < 4
            THEN [panicked |-> FALSE, rest |-> r1, nalus |-> n1]
            ELSE IF Gt32(U32BE(r1, 1), ToU32(Len(r1) - 4))
            THEN [panicked |-> FALSE, rest |-> Drop(r1, 4), nalus |-> n1]
            ELSE AvccWalk(Drop(r1, 4), U32BE(r1, 1), n1)

RECURSIVE StartCodeScan(_, _)
\* parse.go lines 294-312: the inner loop of the Annex-B branch from pos
\* (counted from 0); three: it stopped at 00 00 01, four: at 00 00 00 01.
\* When it runs to the end neither _val3 nor _val4 is 1.
StartCodeScan(b, pos) ==
    IF pos >= Len(b)
    THEN [pos |-> pos, three |-> FALSE, four |-> FALSE]
    ELSE IF pos + 2 < Len(b) /\ b[pos + 1] = 0
    THEN IF U24BE(b, pos + 1) = 0 /\ pos + 3 < Len(b) /\ b[pos + 4] = 1
         THEN [pos |-> pos, three |-> FALSE, four |-> TRUE]
         ELSE IF U24BE(b, pos + 1) = 1
         THEN [pos |-> pos, three |-> TRUE, four |-> FALSE]
         ELSE StartCodeScan(b, pos + 1)
    ELSE StartCodeScan(b, pos + 1)

RECURSIVE AnnexBWalk(_, _, _, _, _, _)
\* parse.go lines 279-313: the outer loop of the Annex-B branch. It ends when
\* start == len(b); were start ever beyond len(b) it would not end.
AnnexBWalk(b, start, pos, three, four, nalus) ==
    LET n1 == IF start # pos THEN Append(nalus, SubSeq(b, start + 1, pos)) ELSE nalus
        p1 == IF three THEN pos + 3 ELSE IF four THEN pos + 4 ELSE pos
        s == StartCodeScan(b, p1)
    IN IF p1 = Len(b) THEN [ends |-> TRUE, nalus |-> n1]
       ELSE IF p1 > Len(b) THEN [ends |-> FALSE, nalus |-> n1]
       ELSE AnnexBWalk(b, p1, s.pos, s.three, s.four, n1)

\* parse.go lines 244-319
SplitNALUs(b) ==
    IF Len(b) < 4
    THEN [called |-> TRUE, nalus |-> <<b>>, typ |-> NALU_RAW, panicked |-> FALSE]
    ELSE LET val3 == U24BE(b, 1)
             val4 == U32BE(b, 1)
             maybe == ~Gt32(val4, ToU32(Len(b)))
             avcc == IF maybe THEN AvccWalk(Drop(b, 4), val4, <<>>)
                     ELSE [panicked |-> FALSE, rest |-> b, nalus |-> <<>>]
             annexb == AnnexBWalk(b, 0, 0, val3 = 1, val4 = ToU32(1), <<>>)
         IN IF avcc.panicked
            THEN [called |-> TRUE, nalus |-> <<>>, typ |-> NALU_RAW, panicked |-> TRUE]
            ELSE IF maybe /\ avcc.rest = <<>>
            THEN [called |-> TRUE, nalus |-> avcc.nalus, typ |-> NALU_AVCC,
                  panicked |-> FALSE]
            ELSE IF val3 = 1 \/ val4 = ToU32(1)
            THEN [called |-> annexb.ends, nalus |-> annexb.nalus, typ |-> NALU_ANNEXB,
                  panicked |-> FALSE]
            ELSE [called |-> TRUE, nalus |-> <<b>>, typ |-> NALU_RAW, panicked |-> FALSE]

\* the byte sequences of length n over 0, 1 and 2
NaluInputs(n) == [1 .. n -> {0, 1, 2}]

InitNalu ==
    /\ RegistryIdle
    /\ ChunkIdle
    /\ CmdIdle
    /\ ServeIdle
    /\ ProxyIdle
    /\ ListenIdle
    /\ DoneIdle
    /\ ConfIdle
    /\ \E n \in 0 .. MaxBytes : nalb \in NaluInputs(n)
    /\ nalres = NoSplit

\* the call SplitNALUs(nalb); a call that does not end leaves no state
Split ==
    /\ ~nalres.called
    /\ nalres' = SplitNALUs(nalb)
    /\ nalres'.called
    /\ UNCHANGED nalb

NextNalu ==
    Split /\ UNCHANGED <<regvars, chunkvars, cmdvars, srvvars, proxyvars, listenvars,
                       donevars, confvars>>

SpecNalu == InitNalu /\ [][NextNalu]_vars

\* C30: SplitNALUs returns on every input without slicing it beyond its
\* length (which would panic), and an input shorter than 4 bytes comes back
\* as the one NALU of type NALU_RAW.
C30_SplitNALUsStaysInBounds ==
    /\ ENABLED Split \/ nalres.called
    /\ nalres.called =>
          /\ ~nalres.panicked
          /\ Len(nalb) < 4 => nalres.nalus = <<nalb>> /\ nalres.typ = NALU_RAW

RECURSIVE AvccBytes(_)
\* every NALU of the list after its length as a 4-byte big-endian integer
AvccBytes(nalus) ==
    IF nalus = <<>> THEN <<>>
    ELSE PutU32BE(ToU32(Len(Head(nalus)))) \o Head(nalus) \o AvccBytes(Tail(nalus))

\* the non-empty runs <<first, last>> of bytes of b that lie outside every
\* start code, a start code being 00 00 01 with the 00 before it, if any
StartCodeRuns(b) ==
    LET codes == {p \in 1 .. Len(b) - 2 : b[p] = 0 /\ b[p + 1] = 0 /\ b[p + 2] = 1}
        from(p) == IF p > 1 /\ b[p - 1] = 0 THEN p - 1 ELSE p
        covered(i) == \E p \in codes : from(p) <= i /\ i <= p + 2
    IN {r \in (1 .. Len(b)) \X (1 .. Len(b)) :
           /\ r[1] <= r[2]
           /\ \A i \in r[1] .. r[2] : ~covered(i)
           /\ r[1] = 1 \/ covered(r[1] - 1)
           /\ r[2] = Len(b) \/ covered(r[2] + 1)}

\* a call that returned NALU_AVCC: the NALUs with their lengths are the input
AvccLossless ==
    (nalres.called /\ ~nalres.panicked /\ nalres.typ = NALU_AVCC) =>
        AvccBytes(nalres.nalus) = nalb

\* a call that returned NALU_ANNEXB: the NALUs are the runs between the start
\* codes, in input order
AnnexBLossless ==
    (nalres.called /\ ~nalres.panicked /\ nalres.typ = NALU_ANNEXB) =>
        LET runs == StartCodeRuns(nalb)
        IN /\ Len(nalres.nalus) = Cardinality(runs)
           /\ \A r \in runs :
                 LET k == Cardinality({q \in runs : q[1] <= r[1]})
                 IN nalres.nalus[k] = SubSeq(nalb, r[1], r[2])

\* a call that returned NALU_RAW: the one NALU is the input
RawLossless ==
    (nalres.called /\ ~nalres.panicked /\ nalres.typ = NALU_RAW) =>
        nalres.nalus = <<nalb>>

\* C31: SplitNALUs loses no bytes: with NALU_AVCC the NALUs, each after its
\* 4-byte big-endian length, are the input; with NALU_ANNEXB they are the
\* non-empty runs between consecutive start codes, in input order; with
\* NALU_RAW the one NALU is the input.
C31_SplitNALUsLosesNoBytes == AvccLossless /\ AnnexBLossless /\ RawLossless

----------------------------------------------------------------------------
(* h265Parse: AVCDecoderConfRecord.Unmarshal, Len and Marshal.             *)

\* parse.go lines 219-221
HEVC_NAL_VPS == 32
HEVC_NAL_SPS == 33
HEVC_NAL_PPS == 34

\* parse.go line 226
HEVC_NAL_SEI_PREFIX == 39

\* pio.PutU16BE: the 2 bytes of v, most significant first
PutU16BE(v) == <<(v \div 256) % 256, v % 256>>

RECURSIVE NalLoop(_, _, _, _, _, _)
\* parse.go lines 656-672: the NAL units of one array. n counts the bytes of
\* b that are read; the result says how the loop ended: "ok", "err" with
\* ErrDecconfInvalid, or "panic" with the line that read past the end of b.
NalLoop(b, n, m, nal_num, nal_type, rec) ==
    IF m >= nal_num THEN [out |-> "ok", at |-> 0, n |-> n, rec |-> rec]
    ELSE IF Len(b) - n < 2 THEN [out |-> "panic", at |-> 657, n |-> n, rec |-> rec]
    ELSE LET nal_len == U16BE(b, n + 1)
             n2 == n + 2
             nal == SubSeq(b, n2 + 1, n2 + nal_len)
             rec2 == IF nal_type = HEVC_NAL_VPS
                     THEN [rec EXCEPT !.VPS = Append(@, nal)]
                     ELSE IF nal_type = HEVC_NAL_SPS
                     THEN [rec EXCEPT !.SPS = Append(@, nal)]
                     ELSE IF nal_type = HEVC_NAL_PPS
                     THEN [rec EXCEPT !.PPS = Append(@, nal)]
                     ELSE rec
         IN IF Len(b) < n2 + nal_len
            THEN [out |-> "err", at |-> 0, n |-> n2, rec |-> rec]
            ELSE NalLoop(b, n2 + nal_len, m + 1, nal_num, nal_type, rec2)

RECURSIVE ArrayLoop(_, _, _, _, _)
\* parse.go lines 645-673: the arrays of the record
ArrayLoop(b, n, i, spscount, rec) ==
    IF i >= spscount THEN [out |-> "ok", at |-> 0, n |-> n, rec |-> rec]
    ELSE IF n >= Len(b) THEN [out |-> "panic", at |-> 646, n |-> n, rec |-> rec]
    ELSE LET nal_type == b[n + 1] % 64
             n1 == n + 1
         IN IF Len(b) < n1 + 2
            THEN [out |-> "err", at |-> 0, n |-> n1, rec |-> rec]
            ELSE LET nal_num == U16BE(b, n1 + 1)
                     r == NalLoop(b, n1 + 2, 0, nal_num, nal_type, rec)
                 IN IF r.out # "ok" THEN r
                    ELSE ArrayLoop(b, r.n, i + 1, spscount, r.rec)

\* parse.go lines 620-678, called on the zero record. Lines 674-676 print the
\* first VPS, SPS and PPS and panic on the first of the three lists that is
\* empty.
Unmarshal(b) ==
    IF Len(b) < 7
    THEN [called |-> TRUE, out |-> "err", at |-> 0, n |-> 0, rec |-> NoRecord]
    ELSE LET rec1 == [NoRecord EXCEPT !.AVCProfileIndication = b[2] % 32,
                                      !.ProfileCompatibility = U32BE(b, 3),
                                      !.AVCLevelIndication = b[7]]
         IN IF 7 + 15 >= Len(b)
            THEN [called |-> TRUE, out |-> "err", at |-> 0, n |-> 7, rec |-> rec1]
            ELSE LET r == ArrayLoop(b, 23, 0, b[23], rec1)
                 IN IF r.out # "ok"
                    THEN [called |-> TRUE, out |-> r.out, at |-> r.at, n |-> r.n, rec |-> r.rec]
                    ELSE IF r.rec.VPS = <<>>
                    THEN [called |-> TRUE, out |-> "panic", at |-> 674, n |-> r.n, rec |-> r.rec]
                    ELSE IF r.rec.SPS = <<>>
                    THEN [called |-> TRUE, out |-> "panic", at |-> 675, n |-> r.n, rec |-> r.rec]
                    ELSE IF r.rec.PPS = <<>>
                    THEN [called |-> TRUE, out |-> "panic", at |-> 676, n |-> r.n, rec |-> r.rec]
                    ELSE [called |-> TRUE, out |-> "ok", at |-> 0, n |-> r.n, rec |-> r.rec]

RECURSIVE NalsLen(_)
\* parse.go lines 682-687: every NAL unit counts with the 2 bytes of its length
NalsLen(nals) ==
    IF nals = <<>> THEN 0 ELSE 2 + Len(Head(nals)) + NalsLen(Tail(nals))

\* parse.go lines 680-689: AVCDecoderConfRecord.Len
RecordLen(rec) == 7 + NalsLen(rec.SPS) + NalsLen(rec.PPS)

\* the bytes v stored at b[n:]. An assignment b[n] = v and a pio.Put call
\* panic when the bytes do not fit (fits); copy(b[n:], v) stores the bytes
\* that fit, and panics only when n is beyond the end of b.
Write(st, v, fits) ==
    IF st.panicked THEN st
    ELSE IF st.n > Len(st.b) \/ (fits /\ st.n + Len(v) > Len(st.b))
    THEN [st EXCEPT !.panicked = TRUE]
    ELSE LET k == Min(Len(v), Len(st.b) - st.n)
         IN [st EXCEPT !.b = [j \in 1 .. Len(st.b) |->
                                 IF j > st.n /\ j <= st.n + k THEN v[j - st.n]
                                 ELSE st.b[j]]]

\* n += k
Step(st, k) == IF st.panicked THEN st ELSE [st EXCEPT !.n = @ + k]

RECURSIVE MarshalNals(_, _)
\* parse.go lines 702-707 and 712-717
MarshalNals(st, nals) ==
    IF nals = <<>> THEN st
    ELSE LET s1 == Step(Write(st, PutU16BE(Len(Head(nals))), TRUE), 2)
             s2 == Step(Write(s1, Head(nals), FALSE), Len(Head(nals)))
         IN MarshalNals(s2, Tail(nals))

\* parse.go lines 691-720: AVCDecoderConfRecord.Marshal. After line 699 has
\* stored the level at b[6], n stays 6 (line 700 is a comment), so what
\* follows is written from b[6] on.
Marshal(rec, b) ==
    LET s0 == [b |-> b, n |-> 0, panicked |-> FALSE]
        s1 == Step(Write(s0, <<1>>, TRUE), 1)
        s2 == Step(Write(s1, <<rec.AVCProfileIndication>>, TRUE), 1)
        s3 == Step(Write(s2, PutU32BE(rec.ProfileCompatibility), TRUE), 4)
        s4 == Write(s3, <<rec.AVCLevelIndication>>, TRUE)
        s5 == MarshalNals(s4, rec.SPS)
        s6 == Step(Write(s5, <<Len(rec.PPS) % 256>>, TRUE), 1)
    IN MarshalNals(s6, rec.PPS)

\* the sequences over S of lo to hi elements
SeqsOf(S, lo, hi) == UNION {[1 .. k -> S] : k \in lo .. hi}

\* a NAL unit of k bytes: the header byte h, then the byte f repeated
Nal(h, f, k) == [j \in 1 .. k |-> IF j = 1 THEN h ELSE f]

\* the sps arguments of NewCodecDataFromSPSAndPPS: lines 589-591 read
\* sps[0][1], sps[0][2:6] and sps[0][3], so no SPS has fewer than 6 bytes
SpsLists == SeqsOf({Nal(66, f, k) : f \in {1, 33}, k \in {6, MaxNalLen}}, 1, MaxNals)

\* the pps arguments of NewCodecDataFromSPSAndPPS
PpsLists == SeqsOf({Nal(68, f, k) : f \in {1, 33}, k \in {1, MaxNalLen}}, 0, MaxNals)

RECURSIVE NalBytes(_)
\* every NAL unit after its length as a 2-byte big-endian integer, as lines
\* 657-671 read them
NalBytes(nals) ==
    IF nals = <<>> THEN <<>>
    ELSE PutU16BE(Len(Head(nals))) \o Head(nals) \o NalBytes(Tail(nals))

RECURSIVE HvcArrays(_, _)
\* arrays as lines 645-672 read them: the NAL type, the number of NAL units
\* and the NAL units; every array of the list has c units of 2 bytes
HvcArrays(types, c) ==
    IF types = <<>> THEN <<>>
    ELSE <<Head(types)>> \o PutU16BE(c) \o NalBytes([j \in 1 .. c |-> Nal(2 * Head(types), 1, 2)])
         \o HvcArrays(Tail(types), c)

\* a record as lines 620-672 read it: 22 bytes of which b[1], b[2:6] and b[6]
\* are used, the number of arrays at b[22], and the arrays
HvcRecord(types, c) ==
    <<1, 1, 96, 0, 0, 0, 93>> \o [j \in 1 .. 15 |-> 0] \o <<Len(types)>> \o HvcArrays(types, c)

\* the records a peer sends: arrays of VPS, SPS, PPS and prefix SEI units, any
\* of them left out, and every such record cut short at any byte
PeerRecords ==
    LET kinds == {HEVC_NAL_VPS, HEVC_NAL_SPS, HEVC_NAL_PPS, HEVC_NAL_SEI_PREFIX}
        lists == {t \in SeqsOf(kinds, 0, 4) :
                     \A i \in 1 .. Len(t) - 1 : t[i] < t[i + 1]}
        whole == {HvcRecord(t, c) : t \in lists, c \in 1 .. MaxNals}
    IN UNION {{Take(r, k) : k \in 0 .. Len(r)} : r \in whole}

InitConf ==
    /\ RegistryIdle
    /\ ChunkIdle
    /\ CmdIdle
    /\ ServeIdle
    /\ ProxyIdle
    /\ ListenIdle
    /\ DoneIdle
    /\ NaluIdle
    /\ ConfIdle

\* parse.go lines 587-600: the record is filled from sps and pps and marshalled
\* into a buffer of Len() bytes, which becomes self.Record when Marshal
\* returns. ParseSPS (line 602) reads sps[0] and changes neither.
NewCodecDataFromSPSAndPPS(sps, pps) ==
    /\ ~mres.called
    /\ ~ures.called
    /\ \E rec \in {[NoRecord EXCEPT !.AVCProfileIndication = sps[1][2],
                                    !.ProfileCompatibility = U32BE(sps[1], 3),
                                    !.AVCLevelIndication = sps[1][4],
                                    !.SPS = sps,
                                    !.PPS = pps,
                                    !.LengthSizeMinusOne = 3]} :
          \E m \in {Marshal(rec, [j \in 1 .. RecordLen(rec) |-> 0])} :
             /\ recordinfo' = rec
             /\ record' = IF m.panicked THEN <<>> ELSE m.b
             /\ mres' = [called |-> TRUE, n |-> m.n, panicked |-> m.panicked]
    /\ UNCHANGED ures

\* the call Unmarshal(b) on the zero record, b being self.Record after
\* NewCodecDataFromSPSAndPPS and the bytes of a peer otherwise (line 564)
UnmarshalCall(b) ==
    /\ ~ures.called
    /\ mres.called => (~mres.panicked /\ b = record)
    /\ record' = b
    /\ ures' = Unmarshal(b)
    /\ UNCHANGED <<recordinfo, mres>>

NextConf ==
    \/ \E sps \in SpsLists, pps \in PpsLists :
          NewCodecDataFromSPSAndPPS(sps, pps)
             /\ UNCHANGED <<regvars, chunkvars, cmdvars, srvvars, proxyvars, listenvars,
                            donevars, naluvars>>
    \/ \E b \in PeerRecords \cup {record} :
          UnmarshalCall(b)
             /\ UNCHANGED <<regvars, chunkvars, cmdvars, srvvars, proxyvars, listenvars,
                            donevars, naluvars>>

SpecConf == InitConf /\ [][NextConf]_vars

\* Unmarshal returned a record or ErrDecconfInvalid
UnmarshalReturns == ures.called => ures.out \in {"ok", "err"}

\* Marshal returned, and returned the number Len() gives
MarshalFillsBuffer ==
    mres.called => (~mres.panicked /\ mres.n = RecordLen(recordinfo)
                    /\ Len(record) = RecordLen(recordinfo))

\* Unmarshal gave back what Marshal was given
RoundTrip ==
    (mres.called /\ ures.called) =>
        /\ ures.out = "ok"
        /\ ures.rec.SPS = recordinfo.SPS
        /\ ures.rec.PPS = recordinfo.PPS
        /\ ures.rec.AVCLevelIndication = recordinfo.AVCLevelIndication

\* C32: Unmarshal never faults: on every byte sequence, a record cut short
\* or one without VPS, SPS or PPS included, it returns ErrDecconfInvalid or
\* a parsed record, without reading b past its end and without taking the
\* first element of an empty list.
C32_UnmarshalNeverFaults == UnmarshalReturns

\* C33: a record that Marshal wrote into a buffer of Len() bytes is accepted
\* by Unmarshal and comes back with the SPS list, the PPS list and the level
\* that were marshalled; Marshal writes exactly Len() bytes and none outside
\* the buffer.
C33_MarshalUnmarshalRoundTrip == MarshalFillsBuffer /\ RoundTrip

----------------------------------------------------------------------------
(* Publisher registry.                                                     *)

HashMapFactors == 101

NoSession == "nil"

\* Anchors are byte strings: "a", "qb" (same shard as "a") and "b".
AnchorA == <<97>>
AnchorQB == <<113, 98>>
AnchorB == <<98>>

Anchors == {AnchorA, AnchorQB, AnchorB}

Sessions == {"s1", "s2", "s3", "s4"}

\* Session.StreamAnchor: s1 and s2 publish the same anchor.
StreamAnchor(s) ==
    CASE s = "s1" -> AnchorA
      [] s = "s2" -> AnchorA
      [] s = "s3" -> AnchorQB
      [] s = "s4" -> AnchorB

\* One task per publishing session, which registers and removes itself, and
\* two player tasks, which look anchors up.
Player == "player"

Players == {Player, "player2"}

Tasks == Sessions \cup Players

RECURSIVE fnv32a(_, _)
\* hash/fnv New32a: for every byte, xor it into the low byte, then multiply
fnv32a(h, s) ==
    IF s = <<>> THEN h
    ELSE fnv32a(MulPrime32(<<h[1], Xor(h[2], Head(s))>>), Tail(s))

\* func hash(s string) uint32; 0x811C9DC5 is the FNV-32 offset basis
hash(s) == fnv32a(<<33052, 40389>>, s)

Shard(p) == Mod32(hash(p), HashMapFactors)

Shards == 0 .. (HashMapFactors - 1)

\* sync.RWMutex: w = held by a writer, r = number of readers holding it
Unlocked == [w |-> FALSE, r |-> 0]

\* mutant: RtmpSessionPush / RtmpSessionDel without the shard lock
CanLockMissing(m) == TRUE

\* Lock(): no writer and no reader holds the mutex
CanLock(m) == ~m.w /\ m.r = 0

\* mutant: RLock succeeds while a writer holds the mutex
CanRLockAny(m) == TRUE

\* RLock(): no writer holds the mutex
CanRLock(m) == ~m.w

\* lines 173-178: the lookup of RtmpSessionGet
Lookup(index, p) == IF p \in DOMAIN index THEN index[p] ELSE NoSession

\* line 187: `_, ok := sessionIndex[path]`
Present(index, p) == p \in DOMAIN index

\* mutant: the store replaces an existing publisher and reports success
PushStoreOverwrite(index, p, s, present) ==
    [index |-> [q \in DOMAIN index \cup {p} |-> IF q = p THEN s ELSE index[q]],
     ret |-> TRUE]

\* mutant: the store reports the conflict but replaces the existing publisher
PushStoreReplace(index, p, s, present) ==
    [index |-> [q \in DOMAIN index \cup {p} |-> IF q = p THEN s ELSE index[q]],
     ret |-> ~present]

\* lines 187-192: the store of RtmpSessionPush, given the `ok` it read
PushStore(index, p, s, present) ==
    IF present
    THEN [index |-> index, ret |-> FALSE]
    ELSE [index |-> [q \in DOMAIN index \cup {p} |->
                        IF q = p THEN s ELSE index[q]],
          ret |-> TRUE]

\* mutant: the delete empties the map of the shard
DelEntryClearsShard(index, p) == [q \in {} |-> index[q]]

\* line 199: delete(sessionIndex, path)
DelEntry(index, p) == [q \in DOMAIN index \ {p} |-> index[q]]

EmptyIndex == [q \in {} |-> NoSession]

\* The observer of an anchor records the results the callers saw, never the map:
\*   state   "none": no Push returned true yet; "held": a Push returned true and
\*           no Del ran since; "released": a Del ran and no Push returned true
\*           since; "reheld": a Push returned true after a Del;
\*   pushed  the sessions whose Push returned since the last Del of the anchor;
\*   winners those of them whose Push returned true;
\*   owner   the session whose Push returned true last and that has not run
\*           RtmpSessionDel itself since;
\*   latest  the session whose Push returned true last, if no Del of the
\*           anchor ran since.
ObsInit ==
    [state |-> "none", pushed |-> {}, winners |-> {}, owner |-> NoSession,
     latest |-> NoSession]

ObsPush(o, s, r) ==
    [state |-> IF ~r THEN o.state
               ELSE IF o.state = "none" THEN "held"
               ELSE IF o.state = "released" THEN "reheld"
               ELSE o.state,
     pushed |-> o.pushed \cup {s},
     winners |-> IF r THEN o.winners \cup {s} ELSE o.winners,
     owner |-> IF r THEN s ELSE o.owner,
     latest |-> IF r THEN s ELSE o.latest]

ObsDel(o, s) ==
    [state |-> "released", pushed |-> {}, winners |-> {},
     owner |-> IF o.owner = s THEN NoSession ELSE o.owner,
     latest |-> NoSession]

InitRegistry ==
    /\ PublishingSessionMap = [i \in Shards |-> EmptyIndex]
    /\ mutex = [i \in Shards |-> Unlocked]
    /\ pc = [t \in Tasks |-> "idle"]
    /\ path = [t \in Tasks |-> <<>>]
    /\ ok = [t \in Tasks |-> FALSE]
    /\ ret = [t \in Tasks |-> NoSession]
    /\ obs = [a \in Anchors |-> ObsInit]
    /\ ChunkIdle
    /\ OtherIdle

\* RtmpSessionGet, lines 170-171: hash the path and take the read lock
GetRLock(t, p) ==
    /\ t \in Players
    /\ pc[t] = "idle"
    /\ CanRLock(mutex[Shard(p)])
    /\ mutex' = [mutex EXCEPT ![Shard(p)].r = @ + 1]
    /\ pc' = [pc EXCEPT ![t] = "get_locked"]
    /\ path' = [path EXCEPT ![t] = p]
    /\ UNCHANGED <<PublishingSessionMap, ok, ret, obs>>

\* RtmpSessionGet, lines 173-178
GetLookup(t) ==
    /\ pc[t] = "get_locked"
    /\ ret' = [ret EXCEPT ![t] = Lookup(PublishingSessionMap[Shard(path[t])], path[t])]
    /\ pc' = [pc EXCEPT ![t] = "get_ret"]
    /\ UNCHANGED <<PublishingSessionMap, mutex, path, ok, obs>>

\* RtmpSessionGet, line 172: the deferred RUnlock, and the return
GetRUnlock(t) ==
    /\ pc[t] = "get_ret"
    /\ mutex' = [mutex EXCEPT ![Shard(path[t])].r = @ - 1]
    /\ pc' = [pc EXCEPT ![t] = "idle"]
    /\ path' = [path EXCEPT ![t] = <<>>]
    /\ ret' = [ret EXCEPT ![t] = NoSession]
    /\ UNCHANGED <<PublishingSessionMap, ok, obs>>

\* RtmpSessionPush, lines 183-185
PushLock(t) ==
    /\ t \in Sessions
    /\ pc[t] = "idle"
    /\ CanLock(mutex[Shard(StreamAnchor(t))])
    /\ mutex' = [mutex EXCEPT ![Shard(StreamAnchor(t))].w = TRUE]
    /\ pc' = [pc EXCEPT ![t] = "push_locked"]
    /\ path' = [path EXCEPT ![t] = StreamAnchor(t)]
    /\ UNCHANGED <<PublishingSessionMap, ok, ret, obs>>

\* RtmpSessionPush, line 187: read the map
PushCheck(t) ==
    /\ pc[t] = "push_locked"
    /\ ok' = [ok EXCEPT ![t] = Present(PublishingSessionMap[Shard(path[t])], path[t])]
    /\ pc' = [pc EXCEPT ![t] = "push_checked"]
    /\ UNCHANGED <<PublishingSessionMap, mutex, path, ret, obs>>

\* RtmpSessionPush, lines 187-192: return false, or store and return true
PushInsert(t) ==
    /\ pc[t] = "push_checked"
    /\ LET r == PushStore(PublishingSessionMap[Shard(path[t])], path[t], t, ok[t])
       IN /\ PublishingSessionMap' =
                [PublishingSessionMap EXCEPT ![Shard(path[t])] = r.index]
          /\ ret' = [ret EXCEPT ![t] = r.ret]
          /\ obs' = [obs EXCEPT ![path[t]] = ObsPush(@, t, r.ret)]
    /\ pc' = [pc EXCEPT ![t] = "push_ret"]
    /\ UNCHANGED <<mutex, path, ok>>

\* RtmpSessionPush, line 186: the deferred Unlock, and the return
PushUnlock(t) ==
    /\ pc[t] = "push_ret"
    /\ mutex' = [mutex EXCEPT ![Shard(path[t])].w = FALSE]
    /\ pc' = [pc EXCEPT ![t] = "idle"]
    /\ path' = [path EXCEPT ![t] = <<>>]
    /\ ok' = [ok EXCEPT ![t] = FALSE]
    /\ ret' = [ret EXCEPT ![t] = NoSession]
    /\ UNCHANGED <<PublishingSessionMap, obs>>

\* RtmpSessionDel, lines 196-198
DelLock(t) ==
    /\ t \in Sessions
    /\ pc[t] = "idle"
    /\ CanLock(mutex[Shard(StreamAnchor(t))])
    /\ mutex' = [mutex EXCEPT ![Shard(StreamAnchor(t))].w = TRUE]
    /\ pc' = [pc EXCEPT ![t] = "del_locked"]
    /\ path' = [path EXCEPT ![t] = StreamAnchor(t)]
    /\ UNCHANGED <<PublishingSessionMap, ok, ret, obs>>

\* RtmpSessionDel, line 199
DelDelete(t) ==
    /\ pc[t] = "del_locked"
    /\ PublishingSessionMap' =
          [PublishingSessionMap EXCEPT ![Shard(path[t])] = DelEntry(@, path[t])]
    /\ obs' = [obs EXCEPT ![path[t]] = ObsDel(@, t)]
    /\ pc' = [pc EXCEPT ![t] = "del_done"]
    /\ UNCHANGED <<mutex, path, ok, ret>>

\* RtmpSessionDel, line 200
DelUnlock(t) ==
    /\ pc[t] = "del_done"
    /\ mutex' = [mutex EXCEPT ![Shard(path[t])].w = FALSE]
    /\ pc' = [pc EXCEPT ![t] = "idle"]
    /\ path' = [path EXCEPT ![t] = <<>>]
    /\ UNCHANGED <<PublishingSessionMap, ok, ret, obs>>

NextRegistry ==
    /\ UNCHANGED <<chunkvars, othervars>>
    /\ \E t \in Tasks :
        \/ \E p \in Anchors : GetRLock(t, p)
        \/ GetLookup(t)
        \/ GetRUnlock(t)
        \/ PushLock(t)
        \/ PushCheck(t)
        \/ PushInsert(t)
        \/ PushUnlock(t)
        \/ DelLock(t)
        \/ DelDelete(t)
        \/ DelUnlock(t)

SpecRegistry == InitRegistry /\ [][NextRegistry]_vars

\* The registry under two writers that share a shard and two readers; the
\* other sessions stay idle.
LockTasks == {"s1", "s3"} \cup Players

NextLocks ==
    /\ UNCHANGED <<chunkvars, othervars>>
    /\ \E t \in LockTasks :
        \/ \E p \in Anchors : GetRLock(t, p)
        \/ GetLookup(t)
        \/ GetRUnlock(t)
        \/ PushLock(t)
        \/ PushCheck(t)
        \/ PushInsert(t)
        \/ PushUnlock(t)
        \/ DelLock(t)
        \/ DelDelete(t)
        \/ DelUnlock(t)

SpecLocks == InitRegistry /\ [][NextLocks]_vars

----------------------------------------------------------------------------
(* Claims about the publisher registry.                                    *)

\* the step in which RtmpSessionPush of task t stores (or not) and sets its result
PushStep(t) == pc[t] = "push_checked" /\ pc'[t] = "push_ret"

\* the entry of anchor a in the registry
Registered(a) == Lookup(PublishingSessionMap[Shard(a)], a)

\* C1: once a Push returned true for an anchor, every later Push for that
\* anchor returns false until a Del of the anchor is executed; the first Push
\* after that Del returns true.
C1_InsertIfAbsentUntilDel ==
    [][\A t \in Sessions :
          PushStep(t) =>
             /\ (obs[path[t]].state \in {"held", "reheld"} => ret'[t] = FALSE)
             /\ (obs[path[t]].state = "released" => ret'[t] = TRUE)]_vars

\* a Push has returned true after a Del, and a later Push for the same anchor
\* has just been refused
C1_Witness ==
    \E t \in Sessions :
        /\ pc[t] = "push_ret"
        /\ ret[t] = FALSE
        /\ obs[path[t]].state = "reheld"

\* C2: a Push that returns false changes no entry of any shard, and the anchor
\* still maps to the session whose Push returned true.
C2_FailedPushChangesNothing ==
    [][\A t \in Sessions :
          (PushStep(t) /\ ret'[t] = FALSE) =>
             /\ PublishingSessionMap' = PublishingSessionMap
             /\ obs[path[t]].winners = {Lookup(PublishingSessionMap'[Shard(path[t])], path[t])}]_vars

\* a Push has just been refused while other anchors, in the same shard and in
\* another one, are registered
C2_Witness ==
    \E t \in Sessions :
        /\ pc[t] = "push_ret"
        /\ ret[t] = FALSE
        /\ Registered(AnchorQB) = "s3"
        /\ Registered(AnchorB) = "s4"

\* C3: the session whose Push returned true stays registered until it runs
\* RtmpSessionDel itself: a Del by another session of the same anchor does not
\* remove it.
C3_DelRemovesOnlyOwnEntry ==
    \A a \in Anchors : obs[a].owner # NoSession => Registered(a) = obs[a].owner

\* C4: of the Push calls for one anchor since the anchor was last absent,
\* exactly one returned true, and the anchor maps to its session.
C4_ExactlyOneWinner ==
    \A a \in Anchors :
        obs[a].pushed # {} =>
            \E w \in Sessions : obs[a].winners = {w} /\ Registered(a) = w

\* both sessions of anchor "a" have pushed; one of them was refused
C4_Witness ==
    /\ obs[AnchorA].pushed = {"s1", "s2"}
    /\ Cardinality(obs[AnchorA].winners) = 1

\* the shard of every anchor
AnchorShard == [a \in Anchors |-> Shard(a)]

\* the writers (Push, Del) inside their critical section on shard i
WritersIn(i) ==
    {t \in Sessions :
        /\ pc[t] \in {"push_locked", "push_checked", "push_ret", "del_locked", "del_done"}
        /\ AnchorShard[path[t]] = i}

\* the readers (Get) inside their critical section on shard i
ReadersIn(i) ==
    {t \in Players : pc[t] \in {"get_locked", "get_ret"} /\ AnchorShard[path[t]] = i}

\* task t is inside an operation and its next step can be taken
CanStep(t) ==
    CASE pc[t] = "get_locked" -> ENABLED GetLookup(t)
      [] pc[t] = "get_ret" -> ENABLED GetRUnlock(t)
      [] pc[t] = "push_locked" -> ENABLED PushCheck(t)
      [] pc[t] = "push_checked" -> ENABLED PushInsert(t)
      [] pc[t] = "push_ret" -> ENABLED PushUnlock(t)
      [] pc[t] = "del_locked" -> ENABLED DelDelete(t)
      [] pc[t] = "del_done" -> ENABLED DelUnlock(t)
      [] OTHER -> FALSE

\* C18: on each shard at most one writer is in its critical section and then
\* no reader is; readers may share it; the mutex is held by exactly the tasks
\* that are inside an operation on the shard (one lock per operation, none
\* kept after the return); every task inside an operation can take its next
\* step, so a lock that is wanted is always released: no deadlock.
C18_WritersExclusiveReadersShared ==
    /\ \A i \in Shards :
          /\ Cardinality(WritersIn(i)) <= 1
          /\ WritersIn(i) # {} => ReadersIn(i) = {}
          /\ mutex[i].w <=> WritersIn(i) # {}
          /\ mutex[i].r = Cardinality(ReadersIn(i))
    /\ \A t \in Tasks :
          /\ pc[t] # "idle" => CanStep(t)
          /\ pc[t] = "idle" => path[t] = <<>>

\* two readers share the shard of "b" while a writer is inside its critical
\* section on the shard of "a" and "qb", and the other writer of that shard
\* has not got the lock
C18_Witness ==
    /\ Cardinality(ReadersIn(AnchorShard[AnchorB])) = 2
    /\ WritersIn(AnchorShard[AnchorQB]) = {"s3"}
    /\ pc["s1"] = "idle"
    /\ ~CanLock(mutex[AnchorShard[StreamAnchor("s1")]])

\* the anchors whose shard is i
AnchorsOf(i) == {a \in Anchors : AnchorShard[a] = i}

\* the step is a step of RtmpSessionGet of task t
GetStep(t) == pc'[t] # pc[t]

\* C19: the shards together are one map anchor -> session: the entry of every
\* anchor is the session of the latest Push that returned true and was not
\* followed by a Del of the anchor (nil if there is none), it is kept in the
\* shard FNV-32a(anchor) mod 101 and in no other, Get returns it and changes
\* nothing, and Push returns true exactly when that map has no entry for the
\* anchor.
C19_ShardsAreOneMap ==
    /\ [](/\ \A a \in Anchors : Registered(a) = obs[a].latest
          /\ \A i \in Shards : DOMAIN PublishingSessionMap[i] \subseteq AnchorsOf(i)
          /\ \A t \in Players : pc[t] = "get_ret" => ret[t] = obs[path[t]].latest)
    /\ [][/\ \A t \in Players :
                GetStep(t) => PublishingSessionMap' = PublishingSessionMap /\ obs' = obs
          /\ \A t \in Sessions :
                PushStep(t) => ret'[t] = (obs[path[t]].latest = NoSession)]_vars

\* "a" and "qb" are registered in the same shard, "a" after a Del, and a Get of
\* "qb" is about to return its session
C19_Witness ==
    /\ obs[AnchorA].state = "reheld"
    /\ DOMAIN PublishingSessionMap[AnchorShard[AnchorA]] = {AnchorA, AnchorQB}
    /\ pc[Player] = "get_ret"
    /\ path[Player] = AnchorQB
    /\ ret[Player] = "s3"

====
